---- MODULE Spec2Model ----
(***************************************************************************)
(* Model of the LLM request/response pipeline of TAI-EvalGenTCS:           *)
(*   RateLimiter, LLMClient.generate_completion (retry with backoff),      *)
(*   LLMClient.generate_json_completion (sanitize, parse, repair,          *)
(*   extract) and TestAnalyzerAgent.analyze_test_class (two-call           *)
(*   contract).                                                            *)
(* Texts are sequences of one-character strings.  Time is counted in       *)
(* whole seconds.                                                          *)
(***************************************************************************)
EXTENDS Integers, Sequences, FiniteSets, TLC

(***************************************************************************)
(* Bounds of the model.                                                    *)
(***************************************************************************)
\* largest RETRY_ATTEMPTS explored
MaxAttempts == 3
\* largest RETRY_DELAY explored (seconds)
MaxDelay == 2
\* largest BACKOFF_FACTOR explored
MaxFactor == 2
\* a sleep may last up to this much longer than asked
MaxDrift == 1
\* value of time.time() when the run starts
Epoch == 5
\* longest enumerated response text
MaxLen == 3
\* largest number of pieces of an enumerated decorated response
MaxPieces == 4
\* largest reading of the clock drawn for a wait_if_needed call
MaxClock == 8
\* wait_if_needed calls made on one limiter
MaxWaits == 2
\* longest time a remote request takes, where requests take time
MaxLatency == 1

(***************************************************************************)
(* Python values.                                                          *)
(***************************************************************************)
\* None where a text or a schema is expected (no text has this form)
None == <<"None">>
\* no exception
NoException == [type |-> "none", msg |-> "", call |-> 0, attempt |-> 0]

\* str.strip() with no argument strips whitespace
PyWhitespace == {" ", "\n", "\t", "\r"}
\* json.decoder.WHITESPACE
JsonWhitespace == {" ", "\n", "\t", "\r"}
\* characters below 0x20, rejected inside strings by the strict decoder
ControlChars == {"\n", "\t", "\r"}
Digits == {"0", "1", "2", "3", "4", "5", "6", "7", "8", "9"}
HexDigits == Digits \cup {"a", "b", "c", "d", "e", "f", "A", "B", "C", "D", "E", "F"}
\* json.decoder.BACKSLASH keys
EscapeChars == {"\"", "\\", "/", "b", "f", "n", "r", "t"}

\* s[i:i+1] with 1-based i: the character at i, or the empty text
Char(s, i) == IF i >= 1 /\ i <= Len(s) THEN s[i] ELSE ""

\* s[i-1:i-1+len(lit)] == lit
StartsWithAt(s, i, lit) ==
    /\ i + Len(lit) - 1 <= Len(s)
    /\ \A k \in 1..Len(lit) : s[i + k - 1] = lit[k]

RECURSIVE LStrip(_)
LStrip(s) == IF s # <<>> /\ Head(s) \in PyWhitespace THEN LStrip(Tail(s)) ELSE s

RECURSIVE RStrip(_)
RStrip(s) ==
    IF s # <<>> /\ s[Len(s)] \in PyWhitespace THEN RStrip(SubSeq(s, 1, Len(s) - 1)) ELSE s

\* str.strip()
Strip(s) == RStrip(LStrip(s))

(***************************************************************************)
(* json.loads: the decoder of the Python standard library, reduced to     *)
(* what the callers observe: the kind of the decoded document, or the      *)
(* message of the JSONDecodeError.                                         *)
(***************************************************************************)
Ok(e, k) == [ok |-> TRUE, end |-> e, kind |-> k, msg |-> ""]
Fail(m) == [ok |-> FALSE, end |-> 0, kind |-> "", msg |-> m]
\* scan_once found no value at the position: StopIteration
StopIteration == "StopIteration"

MsgUnterminated == "Unterminated string starting at"
MsgPropertyName == "Expecting property name enclosed in double quotes"
MsgExpectingValue == "Expecting value"
MsgColon == "Expecting ':' delimiter"
MsgComma == "Expecting ',' delimiter"
MsgExtraData == "Extra data"
MsgControl == "Invalid control character at"
MsgEscape == "Invalid \\escape"
MsgUEscape == "Invalid \\uXXXX escape"
\* CPython 3.13 reports a trailing comma with its own message; older
\* versions report the missing property name or value
MsgTrailingObject == "Illegal trailing comma before end of object"
MsgTrailingArray == "Illegal trailing comma before end of array"

RECURSIVE SkipWs(_, _)
\* WHITESPACE.match(s, i).end()
SkipWs(s, i) == IF i <= Len(s) /\ s[i] \in JsonWhitespace THEN SkipWs(s, i + 1) ELSE i

RECURSIVE ScanDigits(_, _)
ScanDigits(s, i) == IF i <= Len(s) /\ s[i] \in Digits THEN ScanDigits(s, i + 1) ELSE i

\* NUMBER_RE = (-?(?:0|[1-9]\d*))(\.\d+)?([eE][-+]?\d+)?
\* the optional exponent, from position i on
NumberExponent(s, i, digitsAt) ==
    IF Char(s, i) \in {"e", "E"} /\ Char(s, digitsAt) \in Digits
    THEN ScanDigits(s, digitsAt) ELSE i

\* the optional fraction, from position i on, then the exponent
NumberFraction(s, i) == IF Char(s, i) = "." /\ Char(s, i + 1) \in Digits THEN ScanDigits(s, i + 1) ELSE i

NumberTail(s, i) ==
    NumberExponent(s, i, IF Char(s, i + 1) \in {"+", "-"} THEN i + 2 ELSE i + 1)

\* the integer part, from position j on (after the optional sign)
NumberInteger(s, j) ==
    IF Char(s, j) = "0" THEN NumberTail(s, NumberFraction(s, j + 1))
    ELSE IF Char(s, j) \in Digits THEN NumberTail(s, NumberFraction(s, ScanDigits(s, j)))
    ELSE 0

\* NUMBER_RE.match(s, i): the position after the number, or 0
MatchNumber(s, i) == NumberInteger(s, IF Char(s, i) = "-" THEN i + 1 ELSE i)

RECURSIVE ScanString(_, _)
\* scanstring(s, i): i is the position after the opening quote
ScanString(s, i) ==
    IF i > Len(s) THEN Fail(MsgUnterminated)
    ELSE IF s[i] = "\"" THEN Ok(i + 1, "string")
    ELSE IF s[i] \in ControlChars THEN Fail(MsgControl)
    ELSE IF s[i] = "\\" THEN
        IF i + 1 > Len(s) THEN Fail(MsgUnterminated)
        ELSE IF s[i + 1] = "u" THEN
            \* the accelerated scanner wants a character after the four digits
            IF i + 6 <= Len(s) /\ \A k \in 2..5 : s[i + k] \in HexDigits
            THEN ScanString(s, i + 6) ELSE Fail(MsgUEscape)
        ELSE IF s[i + 1] \in EscapeChars THEN ScanString(s, i + 2)
        ELSE Fail(MsgEscape)
    ELSE ScanString(s, i + 1)

Lit(str) == CASE str = "null" -> <<"n", "u", "l", "l">>
              [] str = "true" -> <<"t", "r", "u", "e">>
              [] str = "false" -> <<"f", "a", "l", "s", "e">>
              [] str = "NaN" -> <<"N", "a", "N">>
              [] str = "Infinity" -> <<"I", "n", "f", "i", "n", "i", "t", "y">>
              [] str = "-Infinity" -> <<"-", "I", "n", "f", "i", "n", "i", "t", "y">>

RECURSIVE ScanOnce(_, _)
RECURSIVE ObjectMembers(_, _)
RECURSIVE ArrayItems(_, _)

\* JSONObject after a comma: nextKey is the position of the next key
ObjectNextKey(s, nextKey) ==
    IF Char(s, nextKey) = "\"" THEN ObjectMembers(s, nextKey + 1)
    ELSE IF Char(s, nextKey) = "}" THEN Fail(MsgTrailingObject)
    ELSE Fail(MsgPropertyName)

\* JSONObject after a member: sep is the position of the separator
ObjectAfterMember(s, sep) ==
    IF Char(s, sep) = "}" THEN Ok(sep + 1, "object")
    ELSE IF Char(s, sep) # "," THEN Fail(MsgComma)
    ELSE ObjectNextKey(s, SkipWs(s, sep + 1))

\* JSONObject after scan_once on a member's value
ObjectAfterValue(s, value) ==
    IF ~value.ok
    THEN IF value.msg = StopIteration THEN Fail(MsgExpectingValue) ELSE value
    ELSE ObjectAfterMember(s, SkipWs(s, value.end))

\* JSONObject after a key: colon is the position where ':' must stand
ObjectAfterKey(s, colon) ==
    IF Char(s, colon) # ":" THEN Fail(MsgColon)
    ELSE ObjectAfterValue(s, ScanOnce(s, SkipWs(s, colon + 1)))

\* JSONObject after scanstring on a key
ObjectKey(s, key) ==
    IF ~key.ok THEN key
    ELSE ObjectAfterKey(s, IF Char(s, key.end) # ":" THEN SkipWs(s, key.end) ELSE key.end)

\* the member loop of JSONObject: i is the position after a key's opening quote
ObjectMembers(s, i) == ObjectKey(s, ScanString(s, i))

\* JSONObject before the first key: j is the position of the first token
ObjectFirst(s, j) ==
    IF Char(s, j) = "}" THEN Ok(j + 1, "object")
    ELSE IF Char(s, j) # "\"" THEN Fail(MsgPropertyName)
    ELSE ObjectMembers(s, j + 1)

\* JSONObject: i is the position after the opening brace
ParseObject(s, i) ==
    IF Char(s, i) = "\"" THEN ObjectMembers(s, i + 1)
    ELSE ObjectFirst(s, SkipWs(s, i))

\* JSONArray after an item: sep is the position of the separator
ArrayAfterItem(s, sep) ==
    IF Char(s, sep) = "]" THEN Ok(sep + 1, "array")
    ELSE IF Char(s, sep) # "," THEN Fail(MsgComma)
    ELSE ArrayItems(s, SkipWs(s, sep + 1))

\* JSONArray after scan_once on an item
ArrayAfterValue(s, i, value) ==
    IF ~value.ok
    THEN IF value.msg # StopIteration THEN value
         ELSE IF Char(s, i) = "]" THEN Fail(MsgTrailingArray)
         ELSE Fail(MsgExpectingValue)
    ELSE ArrayAfterItem(s, SkipWs(s, value.end))

\* the item loop of JSONArray: i is the position of the next item
ArrayItems(s, i) == ArrayAfterValue(s, i, ScanOnce(s, i))

\* JSONArray before the first item: j is the position of the first token
ArrayFirst(s, j) == IF Char(s, j) = "]" THEN Ok(j + 1, "array") ELSE ArrayItems(s, j)

\* JSONArray: i is the position after the opening bracket
ParseArray(s, i) == ArrayFirst(s, SkipWs(s, i))

\* scan_once on a character that opens no string, object or array
ScanScalar(s, i, c) ==
    IF c = "n" /\ StartsWithAt(s, i, Lit("null")) THEN Ok(i + 4, "null")
    ELSE IF c = "t" /\ StartsWithAt(s, i, Lit("true")) THEN Ok(i + 4, "boolean")
    ELSE IF c = "f" /\ StartsWithAt(s, i, Lit("false")) THEN Ok(i + 5, "boolean")
    ELSE IF MatchNumber(s, i) # 0 THEN Ok(MatchNumber(s, i), "number")
    ELSE IF c = "N" /\ StartsWithAt(s, i, Lit("NaN")) THEN Ok(i + 3, "number")
    ELSE IF c = "I" /\ StartsWithAt(s, i, Lit("Infinity")) THEN Ok(i + 8, "number")
    ELSE IF c = "-" /\ StartsWithAt(s, i, Lit("-Infinity")) THEN Ok(i + 9, "number")
    ELSE Fail(StopIteration)

\* scanner.scan_once
ScanOnce(s, i) ==
    IF i > Len(s) THEN Fail(StopIteration)
    ELSE IF s[i] = "\"" THEN ScanString(s, i + 1)
    ELSE IF s[i] = "{" THEN ParseObject(s, i + 1)
    ELSE IF s[i] = "[" THEN ParseArray(s, i + 1)
    ELSE ScanScalar(s, i, s[i])

\* JSONDecoder.decode after raw_decode: start is where the document begins
\* and r what scan_once made of it
DecodeEnd(s, start, r) ==
    IF ~r.ok
    THEN [ok |-> FALSE, kind |-> "", text |-> <<>>,
          msg |-> IF r.msg = StopIteration THEN MsgExpectingValue ELSE r.msg]
    ELSE IF SkipWs(s, r.end) # Len(s) + 1
    THEN [ok |-> FALSE, kind |-> "", text |-> <<>>, msg |-> MsgExtraData]
    ELSE [ok |-> TRUE, kind |-> r.kind, text |-> SubSeq(s, start, r.end - 1), msg |-> ""]

\* JSONDecoder.decode from the first character that is not whitespace
DecodeFrom(s, start) == DecodeEnd(s, start, ScanOnce(s, start))

\* json.loads(s): [ok, kind, text] of the decoded document, or [ok, msg]
JsonLoads(s) == DecodeFrom(s, SkipWs(s, 1))

\* str(e) of the JSONDecodeError raised under the running interpreter:
\* newTrailingComma is TRUE for CPython 3.13 and later
ErrorMessage(msg, newTrailingComma) ==
    IF newTrailingComma THEN msg
    ELSE IF msg = MsgTrailingObject THEN MsgPropertyName
    ELSE IF msg = MsgTrailingArray THEN MsgExpectingValue
    ELSE msg

(***************************************************************************)
(* Response repair utilities of LLMClient.                                 *)
(***************************************************************************)
\* the grave accent U+0060, which a string of this notation cannot hold
Backtick == "~"
Fence == <<Backtick, Backtick, Backtick>>
FenceJson == <<Backtick, Backtick, Backtick, "j", "s", "o", "n">>

StartsWith(s, prefix) == StartsWithAt(s, 1, prefix)
EndsWith(s, suffix) == Len(suffix) <= Len(s) /\ StartsWithAt(s, Len(s) - Len(suffix) + 1, suffix)

\* a sanitizer that leaves the trailing marker in place
StripTrailingFenceKept(cleaned) == Strip(cleaned)

\* a sanitizer whose last strip forgets the trailing whitespace
StripTrailingFenceLStrip(cleaned) ==
    LStrip(IF EndsWith(cleaned, Fence) THEN SubSeq(cleaned, 1, Len(cleaned) - 3) ELSE cleaned)

\* lines 256-259: remove the trailing marker, strip
StripTrailingFence(cleaned) ==
    Strip(IF EndsWith(cleaned, Fence) THEN SubSeq(cleaned, 1, Len(cleaned) - 3) ELSE cleaned)

\* lines 250-259: remove the leading marker, then the trailing one
StripFences(cleaned) ==
    StripTrailingFence(IF StartsWith(cleaned, FenceJson) THEN SubSeq(cleaned, 8, Len(cleaned))
                       ELSE IF StartsWith(cleaned, Fence) THEN SubSeq(cleaned, 4, Len(cleaned))
                       ELSE cleaned)

\* LLMClient._sanitize_json_response
SanitizeJsonResponse(response) == StripFences(Strip(response))

RECURSIVE RepairScanFirst(_, _, _, _, _, _)
\* a scanning loop that keeps the first position where the count is back
\* to zero
RepairScanFirst(s, i, brace_count, in_string, escape_next, last_valid_pos) ==
    IF i > Len(s) THEN last_valid_pos
    ELSE IF escape_next THEN RepairScanFirst(s, i + 1, brace_count, in_string, FALSE, last_valid_pos)
    ELSE IF s[i] = "\\" THEN RepairScanFirst(s, i + 1, brace_count, in_string, TRUE, last_valid_pos)
    ELSE IF s[i] = "\"" THEN RepairScanFirst(s, i + 1, brace_count, ~in_string, FALSE, last_valid_pos)
    ELSE IF in_string THEN RepairScanFirst(s, i + 1, brace_count, in_string, FALSE, last_valid_pos)
    ELSE IF s[i] = "{" THEN RepairScanFirst(s, i + 1, brace_count + 1, in_string, FALSE, last_valid_pos)
    ELSE IF s[i] = "}"
         THEN RepairScanFirst(s, i + 1, brace_count - 1, in_string, FALSE,
                              IF brace_count - 1 = 0 /\ last_valid_pos = -1
                              THEN i ELSE last_valid_pos)
    ELSE RepairScanFirst(s, i + 1, brace_count, in_string, FALSE, last_valid_pos)

RECURSIVE RepairScan(_, _, _, _, _, _)
\* the scanning loop of _repair_truncated_json from 1-based position i on;
\* the result is last_valid_pos (a 0-based end offset, -1 if never set)
RepairScan(s, i, brace_count, in_string, escape_next, last_valid_pos) ==
    IF i > Len(s) THEN last_valid_pos
    ELSE IF escape_next THEN RepairScan(s, i + 1, brace_count, in_string, FALSE, last_valid_pos)
    ELSE IF s[i] = "\\" THEN RepairScan(s, i + 1, brace_count, in_string, TRUE, last_valid_pos)
    ELSE IF s[i] = "\"" THEN RepairScan(s, i + 1, brace_count, ~in_string, FALSE, last_valid_pos)
    ELSE IF in_string THEN RepairScan(s, i + 1, brace_count, in_string, FALSE, last_valid_pos)
    ELSE IF s[i] = "{" THEN RepairScan(s, i + 1, brace_count + 1, in_string, FALSE, last_valid_pos)
    ELSE IF s[i] = "}"
         THEN RepairScan(s, i + 1, brace_count - 1, in_string, FALSE,
                         IF brace_count - 1 = 0 THEN i ELSE last_valid_pos)
    ELSE RepairScan(s, i + 1, brace_count, in_string, FALSE, last_valid_pos)

\* a repair that cuts before the closing brace it found
RepairTruncatedJsonOpen(json_str) ==
    LET last_valid_pos == RepairScan(json_str, 1, 0, FALSE, FALSE, -1)
    IN IF last_valid_pos > 0 THEN SubSeq(json_str, 1, last_valid_pos - 1) ELSE None

\* LLMClient._repair_truncated_json
RepairTruncatedJson(json_str) ==
    LET last_valid_pos == RepairScan(json_str, 1, 0, FALSE, FALSE, -1)
    IN IF last_valid_pos > 0 THEN SubSeq(json_str, 1, last_valid_pos) ELSE None

RECURSIVE ExtractScanClamped(_, _, _, _)
\* a scanning loop that does not let a stray closing brace take the count
\* below zero
ExtractScanClamped(text, i, brace_count, start_index) ==
    IF i > Len(text) THEN None
    ELSE IF text[i] = "{"
         THEN ExtractScanClamped(text, i + 1, brace_count + 1,
                                 IF brace_count = 0 THEN i ELSE start_index)
    ELSE IF text[i] = "}"
         THEN IF brace_count = 0 THEN ExtractScanClamped(text, i + 1, 0, start_index)
              ELSE IF brace_count - 1 = 0 /\ start_index # 0
              THEN IF JsonLoads(SubSeq(text, start_index, i)).ok
                   THEN SubSeq(text, start_index, i)
                   ELSE ExtractScanClamped(text, i + 1, brace_count - 1, 0)
              ELSE ExtractScanClamped(text, i + 1, brace_count - 1, start_index)
    ELSE ExtractScanClamped(text, i + 1, brace_count, start_index)

RECURSIVE ExtractScan(_, _, _, _)
\* the scanning loop of _extract_json_from_text from 1-based position i on;
\* start_index is 1-based, 0 when unset
ExtractScan(text, i, brace_count, start_index) ==
    IF i > Len(text) THEN None
    ELSE IF text[i] = "{"
         THEN ExtractScan(text, i + 1, brace_count + 1,
                          IF brace_count = 0 THEN i ELSE start_index)
    ELSE IF text[i] = "}"
         THEN IF brace_count - 1 = 0 /\ start_index # 0
              THEN IF JsonLoads(SubSeq(text, start_index, i)).ok
                   THEN SubSeq(text, start_index, i)
                   ELSE ExtractScan(text, i + 1, brace_count - 1, 0)
              ELSE ExtractScan(text, i + 1, brace_count - 1, start_index)
    ELSE ExtractScan(text, i + 1, brace_count, start_index)

\* LLMClient._extract_json_from_text
ExtractJsonFromText(text) == ExtractScan(text, 1, 0, 0)

(***************************************************************************)
(* LLMClient.generate_json_completion, the part after generate_completion  *)
(* returned `response`: sanitize, parse and the failure cascade.           *)
(***************************************************************************)
\* json.JSONDecodeError(msg, doc, pos): the message and the document it keeps
JSONDecodeError(msg, doc) == [msg |-> msg, doc |-> doc]

Returned(v, how, st) == [status |-> "returned", kind |-> v.kind, text |-> v.text,
                         source |-> how,
                         error |-> [type |-> "none", msg |-> "", doc |-> None],
                         steps |-> st]
Raised(ty, m, st) == [status |-> "raised", kind |-> "", text |-> <<>>,
                      source |-> "", error |-> [type |-> ty, msg |-> m, doc |-> None],
                      steps |-> st]
\* line 234: the bare raise re-raises the handled exception e
Reraised(e, st) == [status |-> "raised", kind |-> "", text |-> <<>>, source |-> "",
                    error |-> [type |-> "JSONDecodeError", msg |-> e.msg, doc |-> e.doc],
                    steps |-> st]

\* a test that also takes the error of the first emptiness check for a
\* truncation
IsTruncationErrorOrEmpty(msg) ==
    msg \in {MsgUnterminated, MsgPropertyName, "Empty response from LLM"}

\* a test that also takes text after a complete document for a truncation
IsTruncationErrorOrExtraData(msg) == msg \in {MsgUnterminated, MsgPropertyName, MsgExtraData}

\* a test that also takes an unexpected end after a colon for a truncation
IsTruncationErrorAnyEnd(msg) == msg \in {MsgUnterminated, MsgPropertyName, MsgExpectingValue}

\* "Unterminated string" in str(e) or "Expecting property name" in str(e)
IsTruncationError(msg) == msg \in {MsgUnterminated, MsgPropertyName}

\* lines 229-234: the outcome of extraction
AfterExtract(e, extracted_json, st) ==
    IF extracted_json # None
    THEN Returned(JsonLoads(extracted_json), "extract", st \o <<"loads_extracted">>)
    ELSE Reraised(e, st)

\* line 228
TryExtract(response, e, st) ==
    AfterExtract(e, ExtractJsonFromText(response), st \o <<"extract">>)

\* a handler whose final raise carries the message of the parse of the
\* repaired prefix
AfterReparseRaisesLast(response, e, reparsed, st) ==
    IF reparsed.ok THEN Returned(reparsed, "repair", st)
    ELSE TryExtract(response, [e EXCEPT !.msg = ErrorMessage(reparsed.msg, FALSE)], st)

\* lines 223-225: the outcome of parsing the repaired prefix
AfterReparse(response, e, reparsed, st) ==
    IF reparsed.ok THEN Returned(reparsed, "repair", st)
    ELSE TryExtract(response, e, st)

\* lines 221-225: the outcome of _repair_truncated_json
AfterRepair(response, e, repaired_json, st) ==
    IF repaired_json # None
    THEN AfterReparse(response, e, JsonLoads(repaired_json), st \o <<"loads_repaired">>)
    ELSE TryExtract(response, e, st)

\* a handler that extracts first and repairs afterwards
ParseFailureHandlerExtractFirst(response, cleaned_response, e, st) ==
    IF response = None THEN Raised("TypeError", "'NoneType' object is not subscriptable", st)
    ELSE IF ExtractJsonFromText(response) # None
    THEN Returned(JsonLoads(ExtractJsonFromText(response)), "extract",
                  st \o <<"extract", "loads_extracted">>)
    ELSE IF IsTruncationError(e.msg) /\ cleaned_response # None
    THEN Reraised(e, st \o <<"extract", "repair">>)
    ELSE Reraised(e, st \o <<"extract">>)

\* the except json.JSONDecodeError handler (lines 212-234); e is the caught
\* error, cleaned_response is None when it was never assigned
ParseFailureHandler(response, cleaned_response, e, st) ==
    \* response[:500] in the debug message
    IF response = None THEN Raised("TypeError", "'NoneType' object is not subscriptable", st)
    ELSE IF ~IsTruncationError(e.msg) THEN TryExtract(response, e, st)
    ELSE IF cleaned_response = None THEN Raised("UnboundLocalError", "cleaned_response", st)
    ELSE AfterRepair(response, e, RepairTruncatedJson(cleaned_response),
                     st \o <<"repair">>)

\* a parse step that hands every document, valid or not, to extraction
AfterLoadsExtractsAlways(response, cleaned_response, loaded, newTrailingComma) ==
    TryExtract(response,
               JSONDecodeError(ErrorMessage(loaded.msg, newTrailingComma), cleaned_response),
               <<"sanitize", "loads">>)

\* lines 209-210: the outcome of json.loads(cleaned_response)
AfterLoads(response, cleaned_response, loaded, newTrailingComma) ==
    IF loaded.ok THEN Returned(loaded, "direct", <<"sanitize", "loads">>)
    ELSE ParseFailureHandler(response, cleaned_response,
                             JSONDecodeError(ErrorMessage(loaded.msg, newTrailingComma),
                                             cleaned_response),
                             <<"sanitize", "loads">>)

\* lines 203-210: after _sanitize_json_response
AfterSanitize(response, cleaned_response, newTrailingComma) ==
    IF cleaned_response = <<>>
    THEN ParseFailureHandler(response, cleaned_response,
                             JSONDecodeError("Empty response after sanitization", <<>>),
                             <<"sanitize">>)
    ELSE AfterLoads(response, cleaned_response, JsonLoads(cleaned_response), newTrailingComma)

\* lines 193-234 of generate_json_completion
JsonCascade(response, newTrailingComma) ==
    IF response = None \/ Strip(response) = <<>>
    THEN ParseFailureHandler(response, None,
                             JSONDecodeError("Empty response from LLM", <<>>), <<>>)
    ELSE AfterSanitize(response, SanitizeJsonResponse(response), newTrailingComma)

(***************************************************************************)
(* Inputs.                                                                 *)
(***************************************************************************)
\* RETRY_ATTEMPTS, RETRY_DELAY, BACKOFF_FACTOR, RATE_LIMIT_REQUESTS_PER_MINUTE
AttemptChoices == (0 - 1)..MaxAttempts
DelayChoices == 0..MaxDelay
FactorChoices == 0..MaxFactor
RateChoices == {60, 20}
\* OPENROUTER_API_KEY as os.getenv returns it: absent, empty or set
KeyChoices == {None, <<>>, <<"k">>}
\* RATE_LIMIT_REQUESTS_PER_MINUTE values that int() accepts, of any sign
AnyRateChoices == {-60, 0, 60}
\* LLM_MODEL: the default of settings.py, or the --llm-model argument of main
DefaultModel == "openai/gpt-4.1-mini"
ModelChoices == {DefaultModel, "other/model"}
\* LLM_SEED after int(): absent, or an integer (its decimal digits), zero
\* included
SeedChoices == {None, <<"0">>, <<"42">>}

\* the schema of _get_json_schema()
Schema == <<"json_schema">>
\* the mode argument of analyze_test_class; it only selects the prompt text
Modes == {"check"}
JsonInstruction == "You MUST respond with valid JSON only."

\* message contents the remote model may answer with
EmptyContents == {None, <<>>, <<" ">>, <<"\n", " ">>}
Payloads ==
    { <<"{", "\"", "a", "\"", ":", "1", "}">>,
      <<"[", "1", "]">>,
      <<"1">>,
      <<Backtick, Backtick, Backtick, "j", "s", "o", "n", "\n", "{", "}", "\n",
        Backtick, Backtick, Backtick>>,
      <<Backtick, Backtick, Backtick>>,
      <<"{", "\"", "a">>,
      <<"[", "{", "}", ",", "\"">>,
      <<"a", " ", "{", "}">>,
      <<"{", "\"", "a", "\"", ":", "1", ",", "}">>,
      <<"{", "a", "}">>,
      <<"{", "a", "{", "}", "}">>,
      <<Backtick, Backtick, Backtick, "[", "{", "}", ",", "\"">>,
      <<"}", "{", "{", "}">>,
      <<"[", "{", "\"", "}", "\"", ":", "1", "}", ",", "\"">>,
      <<"a", " ", "{", "\"", "}", "\"", ":", "1", "}">>,
      <<"[", "{", "\"", "\\", "\"", "}", "\"", ":", "1", "}", ",", "\"">>,
      <<"{", "\\", "\"", "}", "\"", ":", "1", "}">>,
      <<"a", "\n", Backtick, Backtick, Backtick, "j", "s", "o", "n", "\n",
        "{", "\"", "x", "\"", ":", "1", "}", "\n", Backtick, Backtick, Backtick, "\n", "a">> }

\* the texts among them that the remote model answers with in a full analysis
RemotePayloads ==
    { <<"{", "\"", "a", "\"", ":", "1", "}">>,
      <<"[", "1", "]">>,
      <<"[", "{", "}", ",", "\"">>,
      <<"{", "\"", "a">> }

\* the characters of the enumerated response texts
Alphabet == {"{", "}", "\"", "a", "[", ",", "\\"}

RECURSIVE TextsOfLen(_)
TextsOfLen(n) ==
    IF n = 0 THEN {<<>>}
    ELSE {Append(t, c) : t \in TextsOfLen(n - 1), c \in Alphabet}

\* the pieces of a decorated response: fence markers, whitespace, a lone
\* grave accent and an object
Pieces == {Fence, FenceJson, <<" ">>, <<"\n">>, <<Backtick>>, <<"{", "}">>}

RECURSIVE DecoratedOfLen(_)
DecoratedOfLen(n) ==
    IF n = 0 THEN {<<>>}
    ELSE {t \o piece : t \in DecoratedOfLen(n - 1), piece \in Pieces}

DecoratedTexts == UNION {DecoratedOfLen(n) : n \in 1..MaxPieces}

Texts == UNION {TextsOfLen(n) : n \in 1..MaxLen} \cup Payloads \cup DecoratedTexts

(***************************************************************************)
(* State.                                                                  *)
(***************************************************************************)
VARIABLES
    settings,         \* Settings: retry_attempts, retry_delay, backoff_factor, rate
    rate_limiter,     \* RateLimiter: requests_per_minute, min_interval, last_request_time
    now,              \* time.time()
    supports_schema,  \* whether the remote model accepts the json_schema directive
    new_trailing_comma, \* whether the interpreter is CPython 3.13 or later
    latency,          \* longest time a remote request takes
    mode,             \* argument of analyze_test_class
    pc,               \* control location
    call,             \* number of generate_json_completion calls begun by the analysis
    attempt,          \* loop variable of generate_completion
    response_format,  \* argument of the running generate_completion
    exc,              \* the exception being handled or propagated
    response,         \* value returned by generate_completion
    result,           \* outcome of analyze_test_class
    calls,            \* log: arguments of each generate_json_completion call
    call_errors,      \* log: the error each failed generate_json_completion raised
    requests,         \* log: remote requests of the running generate_completion
    admits,           \* log: number of wait_if_needed calls of the running generate_completion
    backoffs,         \* log: backoff sleeps of the running generate_completion
    first_content,    \* log: first non-empty content received by the running generate_completion
    rejected,         \* log: number of requests rejected for their schema directive
    strict_after_rejection, \* log: json_schema requests sent after such a rejection
    admit_times,      \* log: times of return of the first, previous and last wait_if_needed
    admit_count,      \* log: number of wait_if_needed calls of the limiter
    parsed,           \* log: outcome of the last sanitize/parse cascade
    process           \* main: whether it ended, its exit status, its report of an error, the saved file

vars == <<settings, rate_limiter, now, supports_schema, new_trailing_comma, latency, mode, pc, call,
          attempt, response_format, exc, response, result, calls, call_errors, requests,
          admits, backoffs, first_content, rejected, strict_after_rejection, admit_times,
          admit_count, parsed, process>>

config == <<settings, supports_schema, new_trailing_comma, latency, mode>>
limiter_log == <<admit_times, admit_count>>
call_log == <<requests, admits, backoffs, first_content>>

NoResult == [status |-> "none"]
\* main has not ended
Running == [exited |-> FALSE, exit_status |-> 0, reported |-> "none", report |-> None]
NoParse == [status |-> "none"]

\* Settings.get_retry_config
GetRetryConfig(st) == [attempts |-> st.retry_attempts, delay |-> st.retry_delay,
                       backoff_factor |-> st.backoff_factor]

\* 60.0 / requests_per_minute for a divisor that is not zero
SixtyOver(requests_per_minute) ==
    IF requests_per_minute > 0 THEN 60 \div requests_per_minute
    ELSE 0 - (60 \div (0 - requests_per_minute))

\* RateLimiter.__init__
NewRateLimiter(requests_per_minute) ==
    [requests_per_minute |-> requests_per_minute,
     min_interval |-> SixtyOver(requests_per_minute),
     last_request_time |-> 0]

\* the limiter of a client that is not constructed yet
NoRateLimiter == [requests_per_minute |-> 0, min_interval |-> 0, last_request_time |-> 0]

Init ==
    /\ settings \in [retry_attempts : AttemptChoices, retry_delay : DelayChoices,
                     backoff_factor : FactorChoices,
                     rate_limit_requests_per_minute : RateChoices,
                     openrouter_api_key : {<<"k">>},
                     llm_model : {DefaultModel}, llm_temperature : {0},
                     llm_max_tokens : {16000}, llm_seed : {None}]
    /\ rate_limiter = NewRateLimiter(settings.rate_limit_requests_per_minute)
    /\ now = Epoch
    /\ supports_schema \in BOOLEAN
    \* no text of RemotePayloads has a trailing comma: the interpreter's
    \* version changes nothing here, and SpecJson covers both
    /\ new_trailing_comma = FALSE
    /\ latency = 0
    /\ mode \in Modes
    /\ pc = "start"
    /\ call = 0
    /\ attempt = 0
    /\ response_format = None
    /\ exc = NoException
    /\ response = None
    /\ result = NoResult
    /\ calls = <<>>
    /\ call_errors = <<>>
    /\ requests = <<>>
    /\ admits = 0
    /\ backoffs = <<>>
    /\ first_content = None
    /\ rejected = 0
    /\ strict_after_rejection = 0
    /\ admit_times = [first |-> 0, prev |-> 0, last |-> 0]
    /\ admit_count = 0
    /\ parsed = NoParse
    /\ process = Running

(***************************************************************************)
(* RateLimiter.wait_if_needed                                              *)
(***************************************************************************)
\* wait_if_needed that stamps the time of issuance instead of the time of return
WaitIfNeededAtIssuance(rl, current_time, oversleep) ==
    LET time_since_last_request == current_time - rl.last_request_time
        sleep_time == rl.min_interval - time_since_last_request
        after == IF time_since_last_request < rl.min_interval
                 THEN current_time + sleep_time + oversleep
                 ELSE current_time
    IN [slept |-> after - current_time,
        now |-> after,
        limiter |-> [rl EXCEPT !.last_request_time = current_time]]

\* wait_if_needed that also sleeps when exactly min_interval has passed
WaitIfNeededAtInclusive(rl, current_time, oversleep) ==
    LET time_since_last_request == current_time - rl.last_request_time
        sleep_time == rl.min_interval - time_since_last_request
        after == IF time_since_last_request <= rl.min_interval
                 THEN current_time + sleep_time + oversleep
                 ELSE current_time
    IN [slept |-> after - current_time,
        now |-> after,
        limiter |-> [rl EXCEPT !.last_request_time = after]]

\* wait_if_needed that sleeps a whole interval whatever time has passed
WaitIfNeededAtFullInterval(rl, current_time, oversleep) ==
    [slept |-> rl.min_interval + oversleep,
     now |-> current_time + rl.min_interval + oversleep,
     limiter |-> [rl EXCEPT !.last_request_time = current_time + rl.min_interval + oversleep]]

\* wait_if_needed that stamps the time its sleep was meant to end
WaitIfNeededAtPlanned(rl, current_time, oversleep) ==
    LET time_since_last_request == current_time - rl.last_request_time
        sleep_time == rl.min_interval - time_since_last_request
        slept == time_since_last_request < rl.min_interval
    IN [slept |-> IF slept THEN sleep_time + oversleep ELSE 0,
        now |-> IF slept THEN current_time + sleep_time + oversleep ELSE current_time,
        limiter |-> [rl EXCEPT !.last_request_time =
                        IF slept THEN current_time + sleep_time ELSE current_time]]

\* wait_if_needed that widens the interval whenever it had to sleep
WaitIfNeededAtAdaptive(rl, current_time, oversleep) ==
    LET time_since_last_request == current_time - rl.last_request_time
        sleep_time == rl.min_interval - time_since_last_request
        slept == time_since_last_request < rl.min_interval
        after == IF slept THEN current_time + sleep_time + oversleep ELSE current_time
    IN [slept |-> after - current_time,
        now |-> after,
        limiter |-> [rl EXCEPT !.last_request_time = after,
                               !.min_interval = IF slept THEN @ + 1 ELSE @]]

\* wait_if_needed entered at current_time; a sleep lasts oversleep longer
\* than asked.  The result is the time of return and the limiter after it.
WaitIfNeededAt(rl, current_time, oversleep) ==
    LET time_since_last_request == current_time - rl.last_request_time
        sleep_time == rl.min_interval - time_since_last_request
        after == IF time_since_last_request < rl.min_interval
                 THEN current_time + sleep_time + oversleep
                 ELSE current_time
    IN [slept |-> after - current_time,
        now |-> after,
        limiter |-> [rl EXCEPT !.last_request_time = after]]

LogAdmit(t) ==
    /\ admit_count' = admit_count + 1
    /\ admit_times' = IF admit_count = 0 THEN [first |-> t, prev |-> t, last |-> t]
                      ELSE [first |-> admit_times.first, prev |-> admit_times.last, last |-> t]

WaitIfNeeded ==
    /\ pc = "admit"
    /\ \E oversleep \in 0..MaxDrift :
          LET w == WaitIfNeededAt(rate_limiter, now, oversleep)
          IN /\ (w.slept = 0 => oversleep = 0)
             /\ now' = w.now
             /\ rate_limiter' = w.limiter
             /\ LogAdmit(w.now)
    /\ admits' = admits + 1
    /\ pc' = "request"
    /\ UNCHANGED <<config, process, call, attempt, response_format, exc, response, result, calls,
                   call_errors, requests, backoffs, first_content, rejected,
                   strict_after_rejection, parsed>>

(***************************************************************************)
(* LLMClient.generate_completion                                           *)
(***************************************************************************)
\* attempt in range(retry_config['attempts'])
InRange(retry_config, a) == a < retry_config.attempts

\* backoff_factor ** attempt
RECURSIVE Pow(_, _)
Pow(b, n) == IF n = 0 THEN 1 ELSE b * Pow(b, n - 1)

\* a backoff that multiplies by the attempt instead of raising to its power
BackoffDelayLinear(retry_config, a) == retry_config.delay * retry_config.backoff_factor * a

\* a backoff whose exponent is one too large
BackoffDelayFromNext(retry_config, a) ==
    retry_config.delay * Pow(retry_config.backoff_factor, a + 1)

\* retry_config['delay'] * (retry_config['backoff_factor'] ** attempt)
BackoffDelay(retry_config, a) == retry_config.delay * Pow(retry_config.backoff_factor, a)

\* a handler that gives up one attempt early
AttemptsRemainEarly(retry_config, a) == a < retry_config.attempts - 2

\* attempt < retry_config['attempts'] - 1
AttemptsRemain(retry_config, a) == a < retry_config.attempts - 1

\* an emptiness check that forgets whitespace-only content
IsEmptyContentNoStrip(content) == content = None \/ content = <<>>

\* an emptiness check with the comparison inverted
IsEmptyContentInverted(content) == content = None \/ Strip(content) # <<>>

\* content is None or content.strip() == ""
IsEmptyContent(content) == content = None \/ Strip(content) = <<>>

\* lines 118-127: the assignment in the try block raises nothing, so the
\* handler that would select {"type": "json_object"} never runs
AssignmentRaises == FALSE
ResponseFormatParam(format) ==
    IF format = None THEN "absent"
    ELSE IF AssignmentRaises THEN "json_object"
    ELSE "json_schema"

SystemPrompt(m) == IF m = "improve" THEN "base prompt + improve" ELSE "base prompt"
UserMessage == "user message"

\* lines 98-127: the parameters of the remote request
\* request parameters that carry the seed only when it is truthy
RequestParamsSeedIfTruthy(st, system_prompt, user_message, format) ==
    LET messages == <<[role |-> "system", content |-> system_prompt],
                      [role |-> "user", content |-> user_message]>>
    IN IF st.llm_seed # None /\ st.llm_seed # <<"0">>
       THEN [model |-> st.llm_model, messages |-> messages,
             temperature |-> st.llm_temperature, max_tokens |-> st.llm_max_tokens,
             seed |-> st.llm_seed[1], response_format |-> ResponseFormatParam(format)]
       ELSE [model |-> st.llm_model, messages |-> messages,
             temperature |-> st.llm_temperature, max_tokens |-> st.llm_max_tokens,
             response_format |-> ResponseFormatParam(format)]

\* lines 98-127: the parameters of the remote request, built from
\* self.settings on every attempt; the seed key exists when llm_seed is not
\* None
RequestParams(st, system_prompt, user_message, format) ==
    LET messages == <<[role |-> "system", content |-> system_prompt],
                      [role |-> "user", content |-> user_message]>>
    IN IF st.llm_seed # None
       THEN [model |-> st.llm_model, messages |-> messages,
             temperature |-> st.llm_temperature, max_tokens |-> st.llm_max_tokens,
             seed |-> st.llm_seed[1], response_format |-> ResponseFormatParam(format)]
       ELSE [model |-> st.llm_model, messages |-> messages,
             temperature |-> st.llm_temperature, max_tokens |-> st.llm_max_tokens,
             response_format |-> ResponseFormatParam(format)]

\* an error record that keeps the first error of the running call
ErrorOfFirstAttempt(ty, m) ==
    IF exc.call = call /\ exc.type # "none" THEN exc
    ELSE [type |-> ty, msg |-> m, call |-> call, attempt |-> attempt]

\* the exception raised in the running attempt of the running call
Error(ty, m) == [type |-> ty, msg |-> m, call |-> call, attempt |-> attempt]

\* what self.client.chat.completions.create may do with a request
RemoteOutcomes(params) ==
    IF params.response_format = "json_schema" /\ ~supports_schema
    THEN {[error |-> "BadRequestError", content |-> None],
          [error |-> "APIConnectionError", content |-> None]}
    ELSE {[error |-> "APIConnectionError", content |-> None]}
         \cup {[error |-> "none", content |-> c] : c \in EmptyContents \cup RemotePayloads}

\* some character of the content is not whitespace
HasText(content) == content # None /\ \E i \in 1..Len(content) : content[i] \notin PyWhitespace

\* a loop whose retries skip the rate limiter
LoopHeadRetryUnthrottled(a) ==
    /\ attempt' = a
    /\ IF InRange(GetRetryConfig(settings), a)
       THEN pc' = (IF a = 0 THEN "admit" ELSE "request") /\ response' = response
       ELSE pc' = "parse" /\ response' = None

\* a loop that runs its body once before it tests the range
LoopHeadAtLeastOnce(a) ==
    /\ attempt' = a
    /\ IF a = 0 \/ InRange(GetRetryConfig(settings), a)
       THEN pc' = "admit" /\ response' = response
       ELSE pc' = "parse" /\ response' = None

\* top of the for loop with loop variable a: the body runs, or the loop
\* ends and the function returns None
LoopHead(a) ==
    /\ attempt' = a
    /\ IF InRange(GetRetryConfig(settings), a)
       THEN pc' = "admit" /\ response' = response
       ELSE pc' = "parse" /\ response' = None

\* lines 97-146: build the request, send it, take the content
Request ==
    /\ pc = "request"
    /\ LET params == RequestParams(settings, <<SystemPrompt(mode), JsonInstruction>>, UserMessage,
                                   response_format)
       IN \E outcome \in RemoteOutcomes(params), duration \in 0..latency :
          /\ requests' = Append(requests, params)
          /\ now' = now + duration
          /\ rejected' = IF outcome.error = "BadRequestError" THEN rejected + 1 ELSE rejected
          /\ strict_after_rejection' =
                IF params.response_format = "json_schema" /\ rejected > 0
                THEN strict_after_rejection + 1 ELSE strict_after_rejection
          /\ first_content' = IF first_content = None /\ outcome.error = "none"
                                 /\ HasText(outcome.content)
                              THEN outcome.content ELSE first_content
          /\ IF outcome.error # "none"
             THEN /\ exc' = Error(outcome.error, "remote call failed")
                  /\ pc' = "except"
                  /\ response' = response
             ELSE IF IsEmptyContent(outcome.content)
             THEN /\ exc' = Error("ValueError", "LLM returned empty response")
                  /\ pc' = "except"
                  /\ response' = response
             ELSE /\ response' = outcome.content
                  /\ pc' = "parse"
                  /\ exc' = exc
    /\ UNCHANGED <<config, process, rate_limiter, call, attempt, response_format, result, calls,
                   call_errors, admits, backoffs, limiter_log, parsed>>

\* lines 148-159: attempts remain, sleep and go round the loop
Backoff ==
    /\ pc = "except"
    /\ AttemptsRemain(GetRetryConfig(settings), attempt)
    /\ LET delay == BackoffDelay(GetRetryConfig(settings), attempt)
       IN /\ \E oversleep \in 0..MaxDrift : now' = now + delay + oversleep
          /\ backoffs' = Append(backoffs, delay)
    /\ LoopHead(attempt + 1)
    /\ UNCHANGED <<config, process, rate_limiter, call, response_format, exc, result, calls,
                   call_errors, requests, admits, first_content, rejected,
                   strict_after_rejection, limiter_log, parsed>>

\* lines 160-162: no attempt remains, re-raise; generate_json_completion
\* lets the error through
Exhausted ==
    /\ pc = "except"
    /\ ~AttemptsRemain(GetRetryConfig(settings), attempt)
    /\ pc' = "failed"
    /\ call_errors' = Append(call_errors, exc)
    /\ UNCHANGED <<config, process, rate_limiter, now, call, attempt, response_format, exc, response,
                   result, calls, call_log, rejected, strict_after_rejection, limiter_log,
                   parsed>>

(***************************************************************************)
(* LLMClient.generate_json_completion and                                  *)
(* TestAnalyzerAgent.analyze_test_class                                    *)
(***************************************************************************)
\* lines 193-234, then line 88 of analyze_test_class when a value comes back
ParseJson ==
    /\ pc = "parse"
    /\ parsed' = JsonCascade(response, new_trailing_comma)
    /\ IF parsed'.status = "returned"
       THEN /\ result' = [status |-> "returned", kind |-> parsed'.kind, text |-> parsed'.text]
            /\ pc' = "done"
            /\ UNCHANGED <<exc, call_errors>>
       ELSE /\ exc' = Error(parsed'.error.type, parsed'.error.msg)
            /\ call_errors' = Append(call_errors, exc')
            /\ pc' = "failed"
            /\ result' = result
    /\ UNCHANGED <<config, process, rate_limiter, now, call, attempt, response_format, response,
                   calls, call_log, rejected, strict_after_rejection, limiter_log>>

\* a retry that keeps the strict schema
FallbackSchemaStrict == Schema

\* the json_schema argument of the retry in analyze_test_class (line 83)
FallbackSchema == None

\* a call of generate_json_completion up to the loop of generate_completion
CallGenerateJsonCompletion(json_schema) ==
    /\ call' = call + 1
    /\ calls' = Append(calls, [system_prompt |-> SystemPrompt(mode),
                               user_message |-> UserMessage,
                               json_schema |-> json_schema])
    /\ response_format' = json_schema
    /\ requests' = <<>>
    /\ admits' = 0
    /\ backoffs' = <<>>
    /\ first_content' = None
    /\ LoopHead(0)

\* analyze_test_class, lines 47-75
AnalyzeTestClass ==
    /\ pc = "start"
    /\ CallGenerateJsonCompletion(Schema)
    /\ UNCHANGED <<config, process, rate_limiter, now, exc, result, call_errors, rejected,
                   strict_after_rejection, limiter_log, parsed>>

\* an analysis that calls again after every failed call
FallbackAgain ==
    /\ pc = "failed"
    /\ call <= 2
    /\ CallGenerateJsonCompletion(FallbackSchema)
    /\ UNCHANGED <<config, process, rate_limiter, now, exc, result, call_errors, rejected,
                   strict_after_rejection, limiter_log, parsed>>

\* analyze_test_class, lines 76-84: the first call raised
Fallback ==
    /\ pc = "failed"
    /\ call = 1
    /\ CallGenerateJsonCompletion(FallbackSchema)
    /\ UNCHANGED <<config, process, rate_limiter, now, exc, result, call_errors, rejected,
                   strict_after_rejection, limiter_log, parsed>>

\* analyze_test_class: the call in the except clause raised
Propagate ==
    /\ pc = "failed"
    /\ call = 2
    /\ result' = [status |-> "raised", error |-> exc]
    /\ pc' = "done"
    /\ UNCHANGED <<config, process, rate_limiter, now, call, attempt, response_format, exc, response,
                   calls, call_errors, call_log, rejected, strict_after_rejection,
                   limiter_log, parsed>>

Next ==
    \/ AnalyzeTestClass
    \/ WaitIfNeeded
    \/ Request
    \/ Backoff
    \/ Exhausted
    \/ ParseJson
    \/ Fallback
    \/ Propagate

Spec == Init /\ [][Next]_vars

(***************************************************************************)
(* The sanitize/parse cascade on every bounded response text.              *)
(***************************************************************************)
InitJson ==
    /\ settings = [retry_attempts |-> 1, retry_delay |-> 0, backoff_factor |-> 1,
                   rate_limit_requests_per_minute |-> 60, openrouter_api_key |-> <<"k">>,
                   llm_model |-> DefaultModel, llm_temperature |-> 0,
                   llm_max_tokens |-> 16000, llm_seed |-> None]
    /\ rate_limiter = [NewRateLimiter(60) EXCEPT !.last_request_time = Epoch]
    /\ now = Epoch
    /\ supports_schema = TRUE
    /\ new_trailing_comma \in BOOLEAN
    /\ latency = 0
    /\ mode = "check"
    /\ pc = "parse"
    /\ call = 1
    /\ attempt = 0
    /\ response_format = Schema
    /\ exc = NoException
    /\ response \in Texts
    /\ HasText(response)
    /\ result = NoResult
    /\ calls = <<[system_prompt |-> SystemPrompt(mode), user_message |-> UserMessage,
                  json_schema |-> Schema]>>
    /\ call_errors = <<>>
    /\ requests = <<RequestParams(settings, <<SystemPrompt(mode), JsonInstruction>>, UserMessage, Schema)>>
    /\ admits = 1
    /\ backoffs = <<>>
    /\ first_content = response
    /\ rejected = 0
    /\ strict_after_rejection = 0
    /\ admit_times = [first |-> Epoch, prev |-> Epoch, last |-> Epoch]
    /\ admit_count = 1
    /\ parsed = NoParse
    /\ process = Running

NextJson == ParseJson

SpecJson == InitJson /\ [][NextJson]_vars

(***************************************************************************)
(* Lines 193-234 of generate_json_completion on any value of `response`,   *)
(* None, empty and whitespace-only included.                               *)
(***************************************************************************)
InitCascade ==
    /\ settings = [retry_attempts |-> 1, retry_delay |-> 0, backoff_factor |-> 1,
                   rate_limit_requests_per_minute |-> 60, openrouter_api_key |-> <<"k">>,
                   llm_model |-> DefaultModel, llm_temperature |-> 0,
                   llm_max_tokens |-> 16000, llm_seed |-> None]
    /\ rate_limiter = [NewRateLimiter(60) EXCEPT !.last_request_time = Epoch]
    /\ now = Epoch
    /\ supports_schema = TRUE
    /\ new_trailing_comma \in BOOLEAN
    /\ latency = 0
    /\ mode = "check"
    /\ pc = "parse"
    /\ call = 1
    /\ attempt = 0
    /\ response_format = Schema
    /\ exc = NoException
    /\ response \in Texts \cup EmptyContents
    /\ result = NoResult
    /\ calls = <<[system_prompt |-> SystemPrompt(mode), user_message |-> UserMessage,
                  json_schema |-> Schema]>>
    /\ call_errors = <<>>
    /\ requests = <<RequestParams(settings, <<SystemPrompt(mode), JsonInstruction>>, UserMessage, Schema)>>
    /\ admits = 1
    /\ backoffs = <<>>
    /\ first_content = None
    /\ rejected = 0
    /\ strict_after_rejection = 0
    /\ admit_times = [first |-> Epoch, prev |-> Epoch, last |-> Epoch]
    /\ admit_count = 1
    /\ parsed = NoParse
    /\ process = Running

SpecCascade == InitCascade /\ [][NextJson]_vars

(***************************************************************************)
(* Construction: Settings.__init__, then LLMClient.__init__ with its       *)
(* RateLimiter, then the analysis, for settings of any sign.               *)
(***************************************************************************)
InitConfig ==
    /\ settings \in [retry_attempts : {1, 2}, retry_delay : {1}, backoff_factor : {1},
                     rate_limit_requests_per_minute : AnyRateChoices,
                     openrouter_api_key : KeyChoices,
                     llm_model : ModelChoices, llm_temperature : {0},
                     llm_max_tokens : {16000}, llm_seed : SeedChoices]
    /\ rate_limiter = NoRateLimiter
    /\ now = Epoch
    /\ supports_schema \in BOOLEAN
    /\ new_trailing_comma = FALSE
    /\ latency = 0
    /\ mode \in Modes
    /\ pc = "construct"
    /\ call = 0
    /\ attempt = 0
    /\ response_format = None
    /\ exc = NoException
    /\ response = None
    /\ result = NoResult
    /\ calls = <<>>
    /\ call_errors = <<>>
    /\ requests = <<>>
    /\ admits = 0
    /\ backoffs = <<>>
    /\ first_content = None
    /\ rejected = 0
    /\ strict_after_rejection = 0
    /\ admit_times = [first |-> 0, prev |-> 0, last |-> 0]
    /\ admit_count = 0
    /\ parsed = NoParse
    /\ process = Running

\* settings.py lines 32-34: not self.openrouter_api_key
KeyMissing(key) == key = None \/ key = <<>>

\* the exception Settings.__init__ or RateLimiter.__init__ raises
ConstructionError(st) ==
    IF KeyMissing(st.openrouter_api_key) THEN "ValueError"
    ELSE IF st.rate_limit_requests_per_minute = 0 THEN "ZeroDivisionError"
    ELSE "none"

\* Settings(config_path), then LLMClient(settings)
Construct ==
    /\ pc = "construct"
    /\ IF ConstructionError(settings) # "none"
       THEN /\ result' = [status |-> "raised",
                          error |-> Error(ConstructionError(settings), "construction failed")]
            /\ pc' = "done"
            /\ rate_limiter' = rate_limiter
       ELSE /\ rate_limiter' = NewRateLimiter(settings.rate_limit_requests_per_minute)
            /\ pc' = "start"
            /\ result' = result
    /\ UNCHANGED <<config, process, now, call, attempt, response_format, exc, response, calls,
                   call_errors, call_log, rejected, strict_after_rejection, limiter_log,
                   parsed>>

NextConfig ==
    \/ Construct
    \/ Next

SpecConfig == InitConfig /\ [][NextConfig]_vars

(***************************************************************************)
(* main and TestEvaluationOrchestrator.check_best_practices around the     *)
(* analysis.                                                               *)
(***************************************************************************)
\* orchestrator.py lines 158-162: reading the test file raises
ReadTestFileFails ==
    /\ pc = "start"
    /\ result' = [status |-> "raised", error |-> Error("OSError", "cannot read the test file")]
    /\ pc' = "done"
    /\ UNCHANGED <<config, process, rate_limiter, now, call, attempt, response_format, exc,
                   response, calls, call_errors, call_log, rejected, strict_after_rejection,
                   limiter_log, parsed>>

\* a result on which every .get(...) succeeds
HasGetAlways(kind) == TRUE

\* analysis_result.get(...) at orchestrator.py line 77 needs a dict
HasGet(kind) == kind = "object"

\* main.py lines 146-157 and orchestrator.py lines 69-85 after the analysis
\* returned: save the report, read the score, log, return 0; an exception
\* on the way is logged by the except clause of line 159
MainCompletes ==
    /\ pc = "done"
    /\ ~process.exited
    /\ result.status = "returned"
    /\ \E saved \in BOOLEAN :
          process' = IF ~saved
                     THEN [exited |-> TRUE, exit_status |-> 1,
                           reported |-> "logged", report |-> None]
                     ELSE IF ~HasGet(result.kind)
                     THEN [exited |-> TRUE, exit_status |-> 1,
                           reported |-> "logged", report |-> result.text]
                     ELSE [exited |-> TRUE, exit_status |-> 0,
                           reported |-> "none", report |-> result.text]
    /\ pc' = "exit"
    /\ UNCHANGED <<config, rate_limiter, now, call, attempt, response_format, exc, response,
                   result, calls, call_errors, call_log, rejected, strict_after_rejection,
                   limiter_log, parsed>>

\* an exception reached main: Settings() raises outside the try block
\* (line 114) and ends the process with a traceback and status 1; the
\* others are caught at line 159, logged, and main returns 1 (line 161)
MainFails ==
    /\ pc = "done"
    /\ ~process.exited
    /\ result.status = "raised"
    /\ process' = [exited |-> TRUE, exit_status |-> 1,
                   reported |-> IF KeyMissing(settings.openrouter_api_key)
                                THEN "traceback" ELSE "logged",
                   report |-> None]
    /\ pc' = "exit"
    /\ UNCHANGED <<config, rate_limiter, now, call, attempt, response_format, exc, response,
                   result, calls, call_errors, call_log, rejected, strict_after_rejection,
                   limiter_log, parsed>>

NextMain ==
    \/ Construct
    \/ ReadTestFileFails
    \/ Next
    \/ MainCompletes
    \/ MainFails

SpecMain == InitConfig /\ [][NextMain]_vars

(***************************************************************************)
(* RateLimiter.wait_if_needed on every limiter state and every reading of  *)
(* time.time(), which follows the system clock and goes back when that     *)
(* clock is set back.                                                      *)
(***************************************************************************)
InitLimiter ==
    /\ settings \in [retry_attempts : {1}, retry_delay : {0}, backoff_factor : {1},
                     rate_limit_requests_per_minute : RateChoices,
                     openrouter_api_key : {<<"k">>},
                     llm_model : {DefaultModel}, llm_temperature : {0},
                     llm_max_tokens : {16000}, llm_seed : {None}]
    /\ \E t \in 0..MaxClock :
          /\ rate_limiter = [NewRateLimiter(settings.rate_limit_requests_per_minute)
                                EXCEPT !.last_request_time = t]
          /\ admit_times = [first |-> t, prev |-> t, last |-> t]
    /\ now \in 0..MaxClock
    /\ supports_schema = TRUE
    /\ new_trailing_comma = FALSE
    /\ latency = 0
    /\ mode = "check"
    /\ pc = "admit"
    /\ call = 1
    /\ attempt = 0
    /\ response_format = Schema
    /\ exc = NoException
    /\ response = None
    /\ result = NoResult
    /\ calls = <<[system_prompt |-> SystemPrompt(mode), user_message |-> UserMessage,
                  json_schema |-> Schema]>>
    /\ call_errors = <<>>
    /\ requests = <<>>
    /\ admits = 0
    /\ backoffs = <<>>
    /\ first_content = None
    /\ rejected = 0
    /\ strict_after_rejection = 0
    /\ admit_count = 0
    /\ parsed = NoParse
    /\ process = Running

\* line 32 of a later call: current_time = time.time(), any reading
ReadClock ==
    /\ pc = "request"
    /\ admit_count < MaxWaits
    /\ now' \in 0..MaxClock
    /\ pc' = "admit"
    /\ UNCHANGED <<config, process, rate_limiter, call, attempt, response_format, exc,
                   response, result, calls, call_errors, call_log, rejected,
                   strict_after_rejection, limiter_log, parsed>>

NextLimiter ==
    \/ WaitIfNeeded
    \/ ReadClock

SpecLimiter == InitLimiter /\ [][NextLimiter]_vars

(***************************************************************************)
(* The retry loop with remote requests that take time.                     *)
(***************************************************************************)
InitTiming ==
    /\ settings \in [retry_attempts : {2}, retry_delay : DelayChoices,
                     backoff_factor : FactorChoices,
                     rate_limit_requests_per_minute : RateChoices,
                     openrouter_api_key : {<<"k">>},
                     llm_model : {DefaultModel}, llm_temperature : {0},
                     llm_max_tokens : {16000}, llm_seed : {None}]
    /\ rate_limiter = NewRateLimiter(settings.rate_limit_requests_per_minute)
    /\ now = Epoch
    /\ supports_schema \in BOOLEAN
    /\ new_trailing_comma = FALSE
    /\ latency = MaxLatency
    /\ mode \in Modes
    /\ pc = "start"
    /\ call = 0
    /\ attempt = 0
    /\ response_format = None
    /\ exc = NoException
    /\ response = None
    /\ result = NoResult
    /\ calls = <<>>
    /\ call_errors = <<>>
    /\ requests = <<>>
    /\ admits = 0
    /\ backoffs = <<>>
    /\ first_content = None
    /\ rejected = 0
    /\ strict_after_rejection = 0
    /\ admit_times = [first |-> 0, prev |-> 0, last |-> 0]
    /\ admit_count = 0
    /\ parsed = NoParse
    /\ process = Running

SpecTiming == InitTiming /\ [][Next]_vars

(***************************************************************************)
(* Properties.                                                             *)
(***************************************************************************)
Range(seq) == {seq[i] : i \in 1..Len(seq)}
retry_attempts == settings.retry_attempts

\* the exception types an attempt of generate_completion fails with
AttemptFailures == {"APIConnectionError", "BadRequestError", "ValueError"}

\* generate_completion has raised its terminal error
TerminalError == pc = "failed" /\ exc.type \in AttemptFailures

\* C1: a generate_completion call with max_attempts >= 1 never sends more
\* than max_attempts requests, raises its terminal error only after exactly
\* max_attempts requests, and returns only after receiving a payload
\* with text, so that when every attempt fails it raises after exactly
\* max_attempts requests.
C1_RetryExhaustion ==
    retry_attempts >= 1 =>
        /\ Len(requests) <= retry_attempts
        /\ TerminalError => Len(requests) = retry_attempts /\ first_content = None
        /\ pc = "except" => Len(requests) = attempt + 1
        /\ pc = "parse" => first_content # None

C1_Witness ==
    /\ TerminalError
    /\ retry_attempts >= 2
    /\ Len(requests) = retry_attempts

\* C2: every wait_if_needed call returns at least min_interval after the
\* previous one returned, so N calls span at least (N-1) * min_interval.
C2_RateLimitSpacing ==
    admit_count >= 2 =>
        /\ admit_times.last - admit_times.prev >= rate_limiter.min_interval
        /\ admit_times.last - admit_times.first >= (admit_count - 1) * rate_limiter.min_interval

C2_Witness ==
    /\ admit_count >= 3
    /\ rate_limiter.min_interval = 3
    /\ admit_times.last - admit_times.prev = 3
    /\ admit_times.prev - admit_times.first > 3

\* C3: the k-th backoff sleep of a call (after failed attempt k-1) lasts
\* base_delay * backoff_factor^(k-1): the first lasts base_delay and each
\* next one backoff_factor times the one before; there is one sleep per
\* failed attempt with attempts remaining; the delays are non-decreasing
\* when backoff_factor >= 1.
C3_BackoffSchedule ==
    /\ pc \in {"admit", "request", "except"} => Len(backoffs) = attempt
    /\ Len(backoffs) >= 1 => backoffs[1] = settings.retry_delay
    /\ \A i \in 1..(Len(backoffs) - 1) : backoffs[i + 1] = backoffs[i] * settings.backoff_factor
    /\ settings.backoff_factor >= 1 =>
          \A i \in 1..(Len(backoffs) - 1) : backoffs[i] <= backoffs[i + 1]

C3_Witness ==
    /\ Len(backoffs) >= 2
    /\ backoffs[1] = 1
    /\ backoffs[2] = 2

\* the delay of the sleep after failed attempt a, by repeated multiplication
RECURSIVE DelayAfter(_)
DelayAfter(a) == IF a = 0 THEN settings.retry_delay
                 ELSE DelayAfter(a - 1) * settings.backoff_factor

\* C4: an empty payload (None, empty or whitespace-only) is handled as any
\* failed attempt: whatever the error, a failed attempt has consumed one
\* request, is followed by the backoff sleep and the next attempt when
\* attempts remain and by the terminal error otherwise; generate_completion
\* never returns a payload without text.
C4_EmptyIsFailure ==
    /\ [](pc = "parse" /\ Len(requests) > 0 => HasText(response))
    /\ [][pc = "except" =>
            /\ Len(requests) = attempt + 1
            /\ IF attempt < retry_attempts - 1
               THEN /\ pc' = "admit"
                    /\ attempt' = attempt + 1
                    /\ backoffs' = Append(backoffs, DelayAfter(attempt))
                    /\ now' >= now + DelayAfter(attempt)
                    /\ requests' = requests
               ELSE /\ pc' = "failed"
                    /\ exc' = exc
                    /\ call_errors' = Append(call_errors, exc)
                    /\ requests' = requests]_vars

C4_Witness ==
    /\ TerminalError
    /\ exc.type = "ValueError"
    /\ Len(backoffs) >= 1
    /\ Len(requests) = retry_attempts

\* C5: once a call has received its first payload with text, it returns
\* exactly that payload and sends no further admit, request or backoff.
C5_FirstPayloadReturned ==
    /\ [](first_content # None => pc \in {"parse", "done", "failed"} /\ response = first_content)
    /\ [][first_content # None /\ first_content' # None =>
            /\ first_content' = first_content
            /\ UNCHANGED <<requests, admits, backoffs, response>>]_vars

C5_Witness ==
    /\ first_content # None
    /\ attempt >= 1
    /\ call = 2
    /\ pc = "done"

\* C6: the analysis calls generate_json_completion at most twice; the first
\* call carries the schema; a second call is made exactly when the first
\* raised, with json_schema = None and the same prompts; a failure of the
\* second call reaches the caller unmodified.
C6_TwoCallContract ==
    /\ Len(calls) <= 2
    /\ Len(calls) >= 1 => calls[1].json_schema = Schema
    /\ Len(calls) = 2 =>
          /\ Len(call_errors) >= 1
          /\ calls[2].json_schema = None
          /\ calls[2].system_prompt = calls[1].system_prompt
          /\ calls[2].user_message = calls[1].user_message
    /\ pc = "done" /\ Len(call_errors) >= 1 => Len(calls) = 2
    /\ result.status = "returned" /\ call_errors = <<>> => Len(calls) = 1
    /\ result.status = "raised" =>
          /\ Len(calls) = 2
          /\ Len(call_errors) = 2
          /\ result.error = call_errors[2]

C6_Witness ==
    /\ result.status = "raised"
    /\ Len(calls) = 2
    /\ calls[2].json_schema = None

\* C7: after the remote service rejected a request for its schema
\* directive, no further json_schema request is sent, and the analysis makes
\* exactly one call without schema.
C7_NoStrictRetry ==
    /\ strict_after_rejection = 0
    /\ pc = "done" /\ rejected > 0 => Len(calls) = 2 /\ calls[2].json_schema = None

\* C8: a request carries the json_schema mode only if a schema was
\* supplied, and a generate_completion call whose structured request was
\* rejected has sent a request in json_object mode by the time it ends.
C8_JsonObjectFallback ==
    /\ \A i \in 1..Len(requests) :
          requests[i].response_format = "json_schema" => response_format # None
    /\ pc = "failed" /\ call = 1 /\ rejected > 0 =>
          \E i \in 1..Len(requests) : requests[i].response_format = "json_object"

\* C9: every value generate_json_completion returns is a JSON document
\* whose top level is an object.
C9_ResultIsObject ==
    parsed.status = "returned" => parsed.kind = "object"

\* the positions of a step in the trace of the cascade
Positions(step) == {i \in 1..Len(parsed.steps) : parsed.steps[i] = step}

\* C10: in the failure cascade repair comes before extraction; repair is
\* attempted when the first error is a truncation error; extraction runs
\* only if repair was not attempted, returned nothing, or its prefix was
\* parsed and rejected; a result of repair is returned without extraction.
C10_CascadeOrdering ==
    parsed.status # "none" =>
        /\ \A i \in Positions("repair"), j \in Positions("extract") : i < j
        /\ \A i \in Positions("loads_repaired"), j \in Positions("extract") : i < j
        /\ Positions("extract") # {} /\ Positions("loads") # {}
              /\ IsTruncationError(ErrorMessage(JsonLoads(SanitizeJsonResponse(response)).msg,
                                                new_trailing_comma))
              => Positions("repair") # {}
        /\ Positions("extract") # {} /\ Positions("loads_repaired") # {}
              => parsed.source # "repair"
        /\ parsed.source = "repair" => Positions("extract") = {}
        /\ parsed.source = "extract" => Positions("extract") # {}

C10_Witness ==
    /\ parsed.status = "returned"
    /\ parsed.steps = <<"sanitize", "loads", "repair", "loads_repaired", "extract",
                        "loads_extracted">>

\* the message of the error raised by the emptiness check after
\* sanitization or by the first json.loads of a response with text
FirstParseError(text, newTrailingComma) ==
    IF SanitizeJsonResponse(text) = <<>> THEN "Empty response after sanitization"
    ELSE ErrorMessage(JsonLoads(SanitizeJsonResponse(text)).msg, newTrailingComma)

\* C11: when the cascade on a response with text returns nothing, the error
\* generate_json_completion raises is the JSONDecodeError of the first
\* parse (or of the emptiness check after sanitization), also when the
\* repaired prefix was parsed and rejected with another error.
C11_OriginalErrorPropagated ==
    parsed.status = "raised" /\ response # None =>
        /\ parsed.error.type = "JSONDecodeError"
        /\ parsed.error.msg = FirstParseError(response, new_trailing_comma)
        /\ exc.type = "JSONDecodeError"
        /\ exc.msg = FirstParseError(response, new_trailing_comma)

C11_Witness ==
    /\ parsed.status = "raised"
    /\ parsed.steps = <<"sanitize", "loads", "repair", "loads_repaired", "extract">>
    /\ JsonLoads(RepairTruncatedJson(SanitizeJsonResponse(response))).msg
          # JsonLoads(SanitizeJsonResponse(response)).msg
    /\ parsed.error.msg = MsgUnterminated

\* the attributes of a diagnostic that holds the length of the response and
\* excerpts of its head and tail
DiagnosticFields == {"length", "head", "tail"}

\* C12: the malformed-JSON error generate_json_completion raises holds the
\* length of the response and excerpts of its head and tail, and does not
\* hold the whole payload.
C12_BoundedDiagnostics ==
    parsed.status = "raised" /\ parsed.error.type = "JSONDecodeError" =>
        /\ DiagnosticFields \subseteq DOMAIN parsed.error
        /\ parsed.error.doc # SanitizeJsonResponse(response)

AllWhitespace(s) == \A i \in 1..Len(s) : s[i] \in PyWhitespace

\* stripped is lead, whitespace, cleaned, whitespace, trail
Decomposes(stripped, lead, cleaned, trail) ==
    \E a \in 0..Len(stripped), b \in 0..Len(stripped) :
        /\ Len(stripped) = Len(lead) + a + Len(cleaned) + b + Len(trail)
        /\ StartsWith(stripped, lead)
        /\ AllWhitespace(SubSeq(stripped, Len(lead) + 1, Len(lead) + a))
        /\ StartsWithAt(stripped, Len(lead) + a + 1, cleaned)
        /\ AllWhitespace(SubSeq(stripped, Len(lead) + a + Len(cleaned) + 1,
                                Len(stripped) - Len(trail)))
        /\ EndsWith(stripped, trail)

\* C13: the sanitized text is the stripped response without one leading
\* marker (the longest of ```json and ``` it starts with), without one
\* trailing ``` marker (when what follows the leading marker ends with it)
\* and without the whitespace around what remains, nothing else being
\* removed; when nothing remains the call enters the failure cascade with
\* the error of the emptiness check and returns no value.
C13_Sanitization ==
    parsed.status # "none" /\ response # None =>
        /\ \E lead \in {<<>>, Fence, FenceJson}, trail \in {<<>>, Fence} :
              /\ Decomposes(Strip(response), lead, SanitizeJsonResponse(response), trail)
              /\ StartsWith(Strip(response), FenceJson) => lead = FenceJson
              /\ StartsWith(Strip(response), Fence) => lead # <<>>
              /\ lead # <<>> => StartsWith(Strip(response), Fence)
              /\ trail # <<>> <=> /\ EndsWith(Strip(response), Fence)
                                  /\ Len(Strip(response)) >= Len(lead) + Len(Fence)
        /\ SanitizeJsonResponse(response) = Strip(SanitizeJsonResponse(response))
        /\ SanitizeJsonResponse(response) = <<>> =>
              /\ parsed.status = "raised"
              /\ parsed.error.msg = "Empty response after sanitization"
              /\ parsed.steps = <<"sanitize", "extract">>

C13_Witness ==
    /\ parsed.status = "raised"
    /\ SanitizeJsonResponse(response) = <<>>
    /\ StartsWith(response, FenceJson)
    /\ EndsWith(response, Fence)
    /\ Len(response) > Len(FenceJson) + Len(Fence)

\* C14 as stated: sanitizing the sanitized text of any response changes
\* nothing.
C14_SanitizeIdempotent ==
    parsed.status # "none" /\ response # None =>
        SanitizeJsonResponse(SanitizeJsonResponse(response)) = SanitizeJsonResponse(response)

\* C14: sanitizing the sanitized text of a response changes nothing when
\* that text neither starts nor ends with a fence marker.
C14_SanitizeIdempotentFenceFree ==
    parsed.status # "none" /\ response # None
        /\ ~StartsWith(SanitizeJsonResponse(response), Fence)
        /\ ~EndsWith(SanitizeJsonResponse(response), Fence) =>
        SanitizeJsonResponse(SanitizeJsonResponse(response)) = SanitizeJsonResponse(response)

C14_Witness ==
    /\ parsed.status = "returned"
    /\ StartsWith(response, FenceJson)
    /\ EndsWith(response, Fence)
    /\ SanitizeJsonResponse(response) = <<"{", "}">>
    /\ SanitizeJsonResponse(SanitizeJsonResponse(response)) = <<"{", "}">>

\* the number of consecutive backslashes that end just before position i
BackslashRun(s, i) ==
    CHOOSE n \in 0..(i - 1) :
        /\ \A k \in 1..n : s[i - k] = "\\"
        /\ n = i - 1 \/ s[i - n - 1] # "\\"

\* the character at i follows an escaping backslash
Escaped(s, i) == BackslashRun(s, i) % 2 = 1
\* the character at i is a quote that opens or closes a string literal
IsQuote(s, i) == s[i] = "\"" /\ ~Escaped(s, i)
\* position i lies inside a string literal
InString(s, i) == Cardinality({k \in 1..(i - 1) : IsQuote(s, k)}) % 2 = 1
\* the character at i is the brace c, outside string literals
IsBrace(s, i, c) == s[i] = c /\ ~Escaped(s, i) /\ ~InString(s, i)
\* braces opened minus braces closed outside string literals up to i
Depth(s, i) == Cardinality({k \in 1..i : IsBrace(s, k, "{")})
               - Cardinality({k \in 1..i : IsBrace(s, k, "}")})
\* the positions of a closing brace that brings the depth back to zero
Balanced(s) == {k \in 1..Len(s) : IsBrace(s, k, "}") /\ Depth(s, k) = 0}

\* the prefix that ends at the last such position, None if there is none
LastBalancedPrefix(s) ==
    IF Balanced(s) = {} THEN None
    ELSE SubSeq(s, 1, CHOOSE k \in Balanced(s) : \A j \in Balanced(s) : j <= k)

ValidObjects(text) ==
    {c \in (1..Len(text)) \X (1..Len(text)) :
        /\ c[1] < c[2]
        /\ text[c[1]] = "{"
        /\ text[c[2]] = "}"
        /\ JsonLoads(SubSeq(text, c[1], c[2])).ok}

\* the leftmost of them, None if there is none
LeftmostValidObject(text) ==
    IF ValidObjects(text) = {} THEN None
    ELSE LET c == CHOOSE c \in ValidObjects(text) : \A d \in ValidObjects(text) : c[1] <= d[1]
         IN SubSeq(text, c[1], c[2])

\* C16: _extract_json_from_text returns the leftmost substring of the text
\* that starts at a "{", ends at its matching "}" and parses as JSON, and
\* None only if the text has no such substring.
C16_ExtractionLeftmost ==
    response # None /\ parsed.status # "none" =>
        ExtractJsonFromText(response) = LeftmostValidObject(response)

\* the characters of prose and fence markers around a decorated object
ProseChars == {"a", "j", "s", "o", "n", " ", "\n", Backtick}

\* text is an object at positions i..j with prose and markers around it
IsDecoratedObject(text, i, j) ==
    /\ i < j
    /\ text[i] = "{"
    /\ text[j] = "}"
    /\ JsonLoads(SubSeq(text, i, j)).ok
    /\ \A k \in (1..(i - 1)) \cup ((j + 1)..Len(text)) : text[k] \in ProseChars

\* C17: a response that is one valid JSON object with brace-free prose and
\* fence markers around it makes generate_json_completion return that
\* object.
C17_DecoratedRecovered ==
    parsed.status # "none" /\ response # None =>
        \A i \in 1..Len(response), j \in 1..Len(response) :
            IsDecoratedObject(response, i, j) =>
                /\ parsed.status = "returned"
                /\ parsed.kind = "object"
                /\ parsed.text = SubSeq(response, i, j)

\* C18: a client whose requests-per-minute setting is zero or negative, or
\* whose API key is missing, is never constructed: no wait_if_needed call
\* and no remote request is made with such settings.
C18_ConfigFailFast ==
    settings.rate_limit_requests_per_minute <= 0 \/ KeyMissing(settings.openrouter_api_key) =>
        /\ pc \in {"construct", "done"}
        /\ requests = <<>>
        /\ admit_count = 0

\* C19: the error generate_completion raises at exhaustion is the one
\* raised in its last attempt, of index max_attempts - 1, in the running
\* call, after max_attempts requests, whatever its type.
C19_LastErrorCarried ==
    TerminalError =>
        /\ exc.attempt = retry_attempts - 1
        /\ exc.attempt = attempt
        /\ exc.call = call
        /\ Len(requests) = exc.attempt + 1
        /\ call_errors[Len(call_errors)] = exc

C19_Witness ==
    /\ TerminalError
    /\ retry_attempts = 3
    /\ exc.type = "ValueError"
    /\ exc.attempt = 2
    /\ rejected = 0

RECURSIVE SumSeq(_)
SumSeq(seq) == IF seq = <<>> THEN 0 ELSE Head(seq) + SumSeq(Tail(seq))

\* C20: an analysis whose call succeeds on attempt k+1 has sent k+1
\* requests and slept k backoffs of base_delay * backoff_factor^i, lasting
\* at least their sum, and returns the parsed payload; with max_attempts 3,
\* base_delay 1 and backoff_factor 2, success on the third attempt follows
\* three requests and sleeps of 1 then 2, at least 3 in all.
C20_EndToEndRecovery ==
    pc = "done" /\ result.status = "returned" =>
        /\ attempt + 1 <= retry_attempts
        /\ Len(requests) = attempt + 1
        /\ admits = attempt + 1
        /\ Len(backoffs) = attempt
        /\ \A i \in 1..Len(backoffs) : backoffs[i] = DelayAfter(i - 1)
        /\ call = 1 => now - Epoch >= SumSeq(backoffs)
        /\ parsed.source = "direct" => result.text = response
        /\ attempt = 2 /\ settings.retry_delay = 1 /\ settings.backoff_factor = 2 =>
              /\ Len(requests) = 3
              /\ backoffs = <<1, 2>>
              /\ call = 1 => now - Epoch >= 3

C20_Witness ==
    /\ pc = "done"
    /\ result.status = "returned"
    /\ result.kind = "object"
    /\ result.text = <<"{", "\"", "a", "\"", ":", "1", "}">>
    /\ settings.retry_attempts = 3
    /\ settings.retry_delay = 1
    /\ settings.backoff_factor = 2
    /\ call = 1
    /\ rejected = 0
    /\ Len(requests) = 3
    /\ backoffs = <<1, 2>>

\* an exception was raised by construction, reading, analysis or
\* persistence
OrchestrationRaised ==
    \/ result.status = "raised"
    \/ result.status = "returned" /\ process.report = None
    \/ result.status = "returned" /\ result.kind # "object"

\* C21: when main has ended, its exit status is non-zero and the error was
\* reported if construction, reading, analysis or persistence raised, and
\* zero only if the analysis returned and the report was saved.
C21_ExitStatus ==
    process.exited =>
        /\ OrchestrationRaised => process.exit_status # 0 /\ process.reported # "none"
        /\ process.exit_status = 0 =>
              /\ result.status = "returned"
              /\ process.report = result.text
              /\ Len(requests) >= 1

C21_Witness ==
    /\ process.exited
    /\ process.exit_status = 1
    /\ process.reported = "logged"
    /\ result.status = "raised"
    /\ result.error.type = "JSONDecodeError"
    /\ Len(calls) = 2

\* C22: when the sanitized response parses, generate_json_completion
\* returns the value of that parse and runs neither repair nor extraction.
C22_RepairOnlyOnFailure ==
    parsed.status # "none" /\ response # None
        /\ JsonLoads(SanitizeJsonResponse(response)).ok =>
        /\ parsed.status = "returned"
        /\ parsed.source = "direct"
        /\ parsed.steps = <<"sanitize", "loads">>
        /\ parsed.kind = JsonLoads(SanitizeJsonResponse(response)).kind
        /\ parsed.text = JsonLoads(SanitizeJsonResponse(response)).text

C22_Witness ==
    /\ parsed.status = "returned"
    /\ parsed.source = "direct"
    /\ parsed.kind = "object"
    /\ StartsWith(response, FenceJson)
    /\ ExtractJsonFromText(response) # None

\* C23: in every attempt, first or retry, one wait_if_needed call returns
\* before the request is sent: a call has made as many admits as requests
\* (one more while a request is about to be sent), each request is sent at
\* the time its admit returned, and that time is at least min_interval
\* after the previous admit.
C23_AdmitPrecedesRequest ==
    /\ [](IF pc = "request" THEN admits = Len(requests) + 1 ELSE admits = Len(requests))
    /\ [][requests' # requests /\ requests' # <<>> =>
            /\ pc = "request"
            /\ Len(requests') = Len(requests) + 1
            /\ admits' = admits
            /\ admits = Len(requests')
            /\ now = admit_times.last
            /\ rate_limiter.last_request_time = now
            /\ admit_count >= 2 =>
                  admit_times.last - admit_times.prev >= rate_limiter.min_interval]_vars

C23_Witness ==
    /\ call = 2
    /\ attempt = 1
    /\ Len(requests) = 2
    /\ admits = 2
    /\ admit_count >= 4
    /\ rate_limiter.min_interval = 3

\* C24: a wait_if_needed call leaves in last_request_time the time at
\* which it returns, after its sleep if it slept, and returns at once when
\* min_interval has passed since that time of the previous call.
C24_StampAtCompletion ==
    /\ [](admit_count >= 1 => rate_limiter.last_request_time = admit_times.last)
    /\ [][pc = "admit" =>
            /\ rate_limiter'.last_request_time = now'
            /\ now' >= rate_limiter.last_request_time + rate_limiter.min_interval
            /\ now - rate_limiter.last_request_time >= rate_limiter.min_interval => now' = now
            /\ now - rate_limiter.last_request_time < rate_limiter.min_interval => now' > now]_vars

C24_Witness ==
    /\ pc = "request"
    /\ attempt = 1
    /\ settings.retry_delay = 0
    /\ rate_limiter.min_interval = 3
    /\ rate_limiter.last_request_time = now
    /\ now - admit_times.prev = 4

\* C25: the limiter's state changes only in a wait_if_needed call, which
\* changes last_request_time alone: requests, failures, backoff sleeps,
\* parsing, repair, extraction and the fallback leave the limiter as it
\* is, and min_interval keeps the value construction gave it.
C25_SingleWriter ==
    /\ [](rate_limiter.min_interval = SixtyOver(settings.rate_limit_requests_per_minute))
    /\ [][rate_limiter' # rate_limiter =>
            /\ pc = "admit"
            /\ pc' = "request"
            /\ rate_limiter'.min_interval = rate_limiter.min_interval
            /\ rate_limiter'.requests_per_minute = rate_limiter.requests_per_minute]_vars

C25_Witness ==
    /\ pc = "done"
    /\ call = 2
    /\ Len(backoffs) >= 1
    /\ parsed.status = "returned"
    /\ parsed.source = "extract"
    /\ Len(call_errors) = 1
    /\ admit_count >= 3
    /\ rate_limiter.last_request_time = admit_times.last
    /\ rate_limiter.last_request_time > Epoch

\* C26: on a response with text whose first parse fails, repair is attempted
\* exactly when the message of that failure is "Unterminated string
\* starting at" or "Expecting property name enclosed in double quotes";
\* after any other failure (the emptiness check, Expecting value, a
\* delimiter, Extra data, a trailing comma reported as such) the next and
\* only step is extraction.
C26_RepairOnlyOnTruncation ==
    parsed.status # "none" /\ response # None /\ parsed.source # "direct" =>
        LET first == FirstParseError(response, new_trailing_comma)
            head == IF SanitizeJsonResponse(response) = <<>>
                    THEN <<"sanitize">> ELSE <<"sanitize", "loads">>
        IN /\ Positions("repair") # {} <=> first \in {MsgUnterminated, MsgPropertyName}
           /\ first \notin {MsgUnterminated, MsgPropertyName} =>
                 parsed.steps \in {head \o <<"extract">>,
                                   head \o <<"extract", "loads_extracted">>}
           /\ first \in {MsgUnterminated, MsgPropertyName} =>
                 SubSeq(parsed.steps, 1, 3) = <<"sanitize", "loads", "repair">>

C26_Witness ==
    /\ parsed.status = "returned"
    /\ response # None
    /\ FirstParseError(response, new_trailing_comma) = MsgExpectingValue
    /\ JsonLoads(SanitizeJsonResponse(response)).msg = MsgExpectingValue
    /\ parsed.steps = <<"sanitize", "loads", "extract", "loads_extracted">>

RECURSIVE StringStateBefore(_, _)
\* the lexical state of JSON text s before its character i: outside a
\* string literal, inside one, or inside one just after a backslash. A
\* quotation mark outside a literal opens one; inside a literal a
\* backslash takes the next character with it and a quotation mark that
\* is not taken closes the literal.
StringStateBefore(s, i) ==
    IF i = 1 THEN "out"
    ELSE LET before == StringStateBefore(s, i - 1)
             c == s[i - 1]
         IN IF before = "out" THEN (IF c = "\"" THEN "in" ELSE "out")
            ELSE IF before = "esc" THEN "in"
            ELSE IF c = "\\" THEN "esc"
            ELSE IF c = "\"" THEN "out"
            ELSE "in"

InStringLiteral(s, i) == StringStateBefore(s, i) # "out"

\* C27: when the cascade attempts repair and _repair_truncated_json
\* returns a prefix, the closing brace that ends the prefix is not inside
\* a string literal of the sanitized text, and the braces of the prefix
\* that are outside string literals are balanced.
C27_OffsetOutsideStrings ==
    parsed.status # "none" /\ Positions("repair") # {} =>
        LET cleaned == SanitizeJsonResponse(response)
            repaired == RepairTruncatedJson(cleaned)
            outside(ch) == {i \in 1..Len(repaired) :
                              repaired[i] = ch /\ ~InStringLiteral(cleaned, i)}
        IN repaired # None =>
              /\ ~InStringLiteral(cleaned, Len(repaired))
              /\ Cardinality(outside("{")) = Cardinality(outside("}"))

\* C28: a wait_if_needed call of a limiter with requests_per_minute > 0
\* returns, and between its reading of the clock and its return at most
\* min_interval passes, plus the oversleep of its one sleep.
C28_BoundedWait ==
    [][pc = "admit" /\ rate_limiter.requests_per_minute > 0 =>
          /\ pc' = "request"
          /\ now' >= now
          /\ now' - now <= rate_limiter.min_interval + MaxDrift]_vars

\* C29: every request of the running generate_completion call equals the
\* first one: its model, temperature and max tokens are those of the
\* settings, its messages are the system prompt and the user message of
\* the call, its response format is that of the call, and it has a seed
\* exactly when llm_seed is set (zero included), with that value.
C29_SameRequest ==
    \A i \in 1..Len(requests) :
        LET r == requests[i]
        IN /\ r = requests[1]
           /\ r.model = settings.llm_model
           /\ r.temperature = settings.llm_temperature
           /\ r.max_tokens = settings.llm_max_tokens
           /\ r.messages = <<[role |-> "system",
                              content |-> <<calls[call].system_prompt, JsonInstruction>>],
                             [role |-> "user", content |-> calls[call].user_message]>>
           /\ r.response_format = ResponseFormatParam(response_format)
           /\ "seed" \in DOMAIN r <=> settings.llm_seed # None
           /\ settings.llm_seed # None => r.seed = settings.llm_seed[1]

C29_Witness ==
    /\ call = 2
    /\ Len(requests) = 2
    /\ settings.llm_seed = <<"0">>
    /\ settings.llm_model = "other/model"
    /\ "seed" \in DOMAIN requests[2]
    /\ requests[2].response_format = "absent"

\* C30: no result of generate_json_completion comes from repair: whenever
\* the cascade attempts repair and _repair_truncated_json returns a prefix,
\* that prefix is parsed and rejected, and a value returned after a failed
\* first parse is the value of the extracted substring.
C30_RepairNeverReturns ==
    parsed.status # "none" /\ response # None =>
        /\ parsed.source # "repair"
        /\ parsed.status = "returned" /\ Positions("extract") = {} => parsed.source = "direct"
        /\ Positions("repair") # {} =>
              LET repaired == RepairTruncatedJson(SanitizeJsonResponse(response))
              IN /\ repaired # None <=> Positions("loads_repaired") # {}
                 /\ repaired # None => ~JsonLoads(repaired).ok
                 /\ Positions("extract") # {}
                 /\ parsed.status = "returned" =>
                       /\ parsed.source = "extract"
                       /\ parsed.text = JsonLoads(ExtractJsonFromText(response)).text

C30_Witness ==
    /\ parsed.status = "returned"
    /\ parsed.source = "extract"
    /\ Positions("loads_repaired") # {}
    /\ FirstParseError(response, new_trailing_comma) = MsgUnterminated
    /\ RepairTruncatedJson(SanitizeJsonResponse(response)) # None
    /\ Len(RepairTruncatedJson(SanitizeJsonResponse(response))) < Len(response)

\* opening minus closing braces among the first k characters, string
\* literals or not
RawCount(text, k) ==
    Cardinality({i \in 1..k : text[i] = "{"}) - Cardinality({i \in 1..k : text[i] = "}"})

\* the spans from a "{" read at raw count 0 to the first "}" that brings
\* the count back to 0
Candidates(text) ==
    {c \in (1..Len(text)) \X (1..Len(text)) :
        /\ c[1] < c[2]
        /\ text[c[1]] = "{"
        /\ RawCount(text, c[1] - 1) = 0
        /\ text[c[2]] = "}"
        /\ RawCount(text, c[2]) = 0
        /\ \A k \in c[1]..(c[2] - 1) : RawCount(text, k) > 0}

ValidCandidates(text) == {c \in Candidates(text) : JsonLoads(SubSeq(text, c[1], c[2])).ok}

FirstValidCandidate(text) ==
    IF ValidCandidates(text) = {} THEN None
    ELSE LET c == CHOOSE c \in ValidCandidates(text) :
                      \A d \in ValidCandidates(text) : c[1] <= d[1]
         IN SubSeq(text, c[1], c[2])

\* a valid object without inner braces that starts after a closing brace
\* which no opening brace precedes
FlatAfterUnmatched(text, o) ==
    /\ \A k \in (o[1] + 1)..(o[2] - 1) : text[k] \notin {"{", "}"}
    /\ \E k \in 1..(o[1] - 1) :
          text[k] = "}" /\ \A i \in 1..(k - 1) : text[i] # "{"

\* C31 (as stated): a flat object that follows an unmatched closing brace
\* is never returned, so a text whose only valid objects are such objects
\* yields None.
C31_FlatAfterUnmatchedNeverReturned ==
    response # None /\ parsed.status # "none" =>
        ((\A o \in ValidObjects(response) : FlatAfterUnmatched(response, o))
            => ExtractJsonFromText(response) = None)

\* C31 (amended): the candidates of _extract_json_from_text are the spans
\* from a "{" read at raw brace count 0 to the "}" that brings the count
\* back to 0, braces in string literals counted; they do not overlap; the
\* result is the first candidate that parses, None if none does, so it
\* starts with "{", ends with "}", has balanced raw braces and parses; and
\* a text all of whose valid objects open at a raw count other than 0
\* (inside a candidate, or while the count is negative) yields None.
C31_ExtractionCandidates ==
    response # None /\ parsed.status # "none" =>
        LET r == ExtractJsonFromText(response)
        IN /\ \A c, d \in Candidates(response) : c # d => c[2] < d[1] \/ d[2] < c[1]
           /\ r = FirstValidCandidate(response)
           /\ r # None =>
                 /\ r[1] = "{"
                 /\ r[Len(r)] = "}"
                 /\ RawCount(r, Len(r)) = 0
                 /\ JsonLoads(r).ok
           /\ (\A o \in ValidObjects(response) : RawCount(response, o[1] - 1) # 0) => r = None

C31_Witness ==
    /\ parsed.status = "raised"
    /\ Positions("extract") # {}
    /\ ExtractJsonFromText(response) = None
    /\ \E c \in Candidates(response), o \in ValidObjects(response) :
          /\ c \notin ValidCandidates(response)
          /\ c[1] < o[1]
          /\ o[2] < c[2]

\* C32: with retry_attempts <= 0, which Settings accepts, a
\* generate_completion call makes no wait_if_needed call, sends no request,
\* sleeps no backoff and raises nothing: it returns None at once, and the
\* only errors of the analysis are those of parsing None.
C32_NoAttemptReturnsNone ==
    /\ [](settings.retry_attempts <= 0 =>
            /\ pc \in {"start", "parse", "failed", "done"}
            /\ admit_count = 0
            /\ admits = 0
            /\ requests = <<>>
            /\ backoffs = <<>>
            /\ first_content = None
            /\ rate_limiter = NewRateLimiter(settings.rate_limit_requests_per_minute)
            /\ pc = "parse" => response = None /\ Len(call_errors) = call - 1
            /\ \A i \in 1..Len(call_errors) : call_errors[i].type = "TypeError")
    /\ [][settings.retry_attempts <= 0 /\ call' # call =>
            /\ pc' = "parse"
            /\ response' = None
            /\ exc' = exc
            /\ now' = now]_vars

C32_Witness ==
    /\ settings.retry_attempts < 0
    /\ pc = "parse"
    /\ call = 2
    /\ response = None
    /\ requests = <<>>
    /\ call_errors[1].type = "TypeError"

\* the remote requests sent since the limiter was built: one per
\* wait_if_needed call that has returned and been followed by its request
TotalRequests == IF pc = "request" THEN admit_count - 1 ELSE admit_count

\* C33: one analysis makes at most two generate_json_completion calls of at
\* most retry_attempts requests each, so at most 2 * retry_attempts
\* requests; when every request fails, whatever the cause, both loops run
\* to exhaustion and the analysis has sent exactly 2 * retry_attempts
\* requests, the second half without the schema.
C33_RequestBudget ==
    /\ call <= 2
    /\ Len(requests) <= (IF settings.retry_attempts > 0 THEN settings.retry_attempts ELSE 0)
    /\ TotalRequests <= 2 * (IF settings.retry_attempts > 0 THEN settings.retry_attempts ELSE 0)
    /\ call = 1 => TotalRequests = Len(requests)
    /\ call = 2 => TotalRequests =
          Len(requests) + (IF settings.retry_attempts <= 0 THEN 0
                           ELSE IF call_errors[1].type \in AttemptFailures
                           THEN settings.retry_attempts
                           ELSE call_errors[1].attempt + 1)
    /\ pc = "done" /\ settings.retry_attempts >= 1 /\ Len(call_errors) = 2
          /\ (\A i \in 1..2 : call_errors[i].type \in AttemptFailures) =>
            /\ TotalRequests = 2 * settings.retry_attempts
            /\ Len(requests) = settings.retry_attempts
            /\ \A i \in 1..Len(requests) : requests[i].response_format = "absent"

C33_Witness ==
    /\ pc = "done"
    /\ settings.retry_attempts = MaxAttempts
    /\ TotalRequests = 2 * MaxAttempts
    /\ Len(call_errors) = 2
    /\ call_errors[1].type = "ValueError"
    /\ call_errors[2].type = "APIConnectionError"

Larger(a, b) == IF a >= b THEN a ELSE b

\* C34: from the request of a failed attempt to the next request of the
\* same call the time that passes is at least the larger of the backoff
\* delay retry_delay * backoff_factor^attempt and min_interval, and at most
\* the larger of the two with the request's duration and the oversleep
\* added, never their sum; wait_if_needed sleeps after the backoff exactly
\* when the request's duration and the backoff sleep together were
\* shorter than min_interval, hence only when the delay was.
C34_WaitsOverlap ==
    /\ [](pc = "request" /\ attempt >= 1 =>
            LET elapsed == admit_times.last - admit_times.prev
                delay == DelayAfter(attempt - 1)
            IN /\ backoffs[attempt] = delay
               /\ now = admit_times.last
               /\ elapsed >= Larger(delay, rate_limiter.min_interval)
               /\ elapsed <= Larger(delay + latency + MaxDrift,
                                    rate_limiter.min_interval + MaxDrift))
    /\ [][pc = "admit" /\ attempt >= 1 =>
            LET since == now - rate_limiter.last_request_time
            IN /\ since >= backoffs[attempt]
               /\ since <= backoffs[attempt] + latency + MaxDrift
               /\ now' > now <=> since < rate_limiter.min_interval
               /\ now' > now => backoffs[attempt] < rate_limiter.min_interval
               /\ now' > now => now' - now <= rate_limiter.min_interval - since + MaxDrift]_vars

C34_Witness ==
    /\ pc = "request"
    /\ attempt = 1
    /\ latency >= 1
    /\ settings.retry_delay = 1
    /\ rate_limiter.min_interval = 3
    /\ admit_times.last - admit_times.prev = 3
    /\ call = 2

\* C35: the cascade never reads cleaned_response before it is assigned: a
\* repair step comes only after sanitization, and a response that fails
\* the first emptiness check (None, empty or whitespace-only) is never
\* repaired; when it is text, the handler goes to extraction and re-raises
\* "Empty response from LLM".
C35_RepairHasSanitizedText ==
    parsed.status # "none" =>
        /\ parsed.error.type # "UnboundLocalError"
        /\ Positions("repair") # {} =>
              /\ parsed.steps[1] = "sanitize"
              /\ response # None
              /\ Strip(response) # <<>>
        /\ response = None \/ Strip(response) = <<>> =>
              /\ Positions("sanitize") = {}
              /\ Positions("repair") = {}
              /\ parsed.status = "raised"
              /\ response # None =>
                    /\ parsed.steps = <<"extract">>
                    /\ parsed.error.type = "JSONDecodeError"
                    /\ parsed.error.msg = "Empty response from LLM"

C35_Witness ==
    /\ parsed.status = "raised"
    /\ response # None
    /\ response # <<>>
    /\ Strip(response) = <<>>
    /\ parsed.steps = <<"extract">>
    /\ parsed.error.msg = "Empty response from LLM"

\* C36: repair is given the sanitized text and extraction the raw
\* response, and neither changes its text: a repair result is a non-empty
\* prefix of the sanitized text that ends with "}", an extraction result is
\* a contiguous substring of the raw response, the cascade parses exactly
\* these results, and the response and the document of a re-raised error
\* are the texts as they were.
C36_RepairAndExtractionTexts ==
    /\ [](parsed.status # "none" /\ response # None =>
            LET cleaned == SanitizeJsonResponse(response)
                repaired == RepairTruncatedJson(cleaned)
                extracted == ExtractJsonFromText(response)
            IN /\ repaired # None =>
                     /\ Len(repaired) >= 1
                     /\ Len(repaired) <= Len(cleaned)
                     /\ repaired = SubSeq(cleaned, 1, Len(repaired))
                     /\ repaired[Len(repaired)] = "}"
               /\ extracted # None =>
                     \E i \in 1..Len(response), j \in 1..Len(response) :
                         extracted = SubSeq(response, i, j)
               /\ Positions("repair") # {} =>
                     (Positions("loads_repaired") # {} <=> repaired # None)
               /\ Positions("extract") # {} =>
                     /\ Positions("loads_extracted") # {} <=> extracted # None
                     /\ parsed.status = "returned" => parsed.text = JsonLoads(extracted).text
               /\ parsed.status = "raised" => parsed.error.doc = cleaned)
    /\ [][pc = "parse" => response' = response]_vars

C36_Witness ==
    /\ parsed.status = "returned"
    /\ SanitizeJsonResponse(response) # response
    /\ Positions("loads_repaired") # {}
    /\ Positions("loads_extracted") # {}
    /\ RepairTruncatedJson(SanitizeJsonResponse(response))
          # SubSeq(response, 1, Len(RepairTruncatedJson(SanitizeJsonResponse(response))))
    /\ Len(ExtractJsonFromText(response))
          < Len(RepairTruncatedJson(SanitizeJsonResponse(response)))

\* C37: a new RateLimiter has last_request_time = 0; a wait_if_needed call
\* on a limiter in that state returns at once, without sleeping, when the
\* clock reads min_interval or more, and sleeps when it reads less; and a
\* call that reads a time not earlier than last_request_time leaves a
\* last_request_time that is not smaller.
C37_FreshLimiter ==
    /\ [](\A r \in RateChoices : NewRateLimiter(r).last_request_time = 0)
    /\ [][pc = "admit" =>
            /\ rate_limiter.last_request_time = 0 /\ now >= rate_limiter.min_interval =>
                  /\ now' = now
                  /\ rate_limiter'.last_request_time = now
            /\ rate_limiter.last_request_time = 0 /\ now < rate_limiter.min_interval =>
                  now' >= rate_limiter.min_interval
            /\ now >= rate_limiter.last_request_time =>
                  /\ now' >= now
                  /\ rate_limiter'.last_request_time >= rate_limiter.last_request_time]_vars

C37_Witness ==
    /\ pc = "request"
    /\ admit_count = 2
    /\ admit_times.prev = rate_limiter.min_interval
    /\ admit_times.last >= admit_times.prev + rate_limiter.min_interval
    /\ rate_limiter.last_request_time = admit_times.last
    /\ now = admit_times.last

====
